---- MODULE Spec2Model ----
(***************************************************************************)
(* Form and webhook handlers of polypeopleprinting: the contact handler    *)
(* (src/unnamed/part_000), the quote handler (src/unnamed/part_001) and    *)
(* the signed order and quote webhooks (src/api/webhooks/new-order.js).    *)
(* One handler invocation runs synchronously up to its next await, so an   *)
(* action is one such segment: the arrival of a request up to the first    *)
(* outbound POST (or the response), and the settling of an outbound POST   *)
(* up to the next one (or the response).                                   *)
(***************************************************************************)
EXTENDS Integers, Sequences, FiniteSets

VARIABLES now, env, loaded, rateLimitMap, inv, hist

vars == <<now, env, loaded, rateLimitMap, inv, hist>>

(***************************************************************************)
(* Program constants.                                                      *)
(***************************************************************************)
MAX_BODY_BYTES == 50000
RATE_LIMIT_WINDOW_MS == 60000
RATE_LIMIT_MAX == 10

(***************************************************************************)
(* Bounds of the model.                                                    *)
(***************************************************************************)
\* entry.count grows without bound in the code: requests stop arriving for a
\* key once its count has reached MaxCount.
MaxCount == 12
\* Date.now() is read at MaxTicks + 2 instants.
MaxTicks == 1
\* Invocations in flight at once (interleaved at their await points).
MaxSlots == 2
\* Length of the short strings a sanitizer is applied to (the long ones are as
\* long as the sanitizer's limit, give or take one).
MaxInputLen == 2

Handlers == {"contact", "quote", "order", "quoteWebhook"}
FormHandlers == {"contact", "quote"}
WebhookHandlers == {"order", "quoteWebhook"}
Slots == 1..MaxSlots
IPs == {"10.0.0.1", "10.0.0.2"}
EnvVars == {"DISCORD_WEBHOOK_CONTACT", "DISCORD_WEBHOOK_QUOTES",
            "DISCORD_WEBHOOK_URL_ORDER", "SENDGRID_API_KEY", "ADMIN_EMAIL",
            "WEBHOOK_SECRET"}

(***************************************************************************)
(* JavaScript values of the request payload.  A string is a sequence of    *)
(* one-character strings.                                                  *)
(***************************************************************************)
Undefined == [t |-> "undefined", s |-> <<>>, n |-> 0]
Null == [t |-> "null", s |-> <<>>, n |-> 0]
Str(chars) == [t |-> "string", s |-> chars, n |-> 0]
Num(k) == [t |-> "number", s |-> <<>>, n |-> k]
Bool(b) == [t |-> "boolean", s |-> <<>>, n |-> IF b THEN 1 ELSE 0]
\* a JSON object with a "toString" member, such as {"toString": 1}: its
\* toString is not a function
Unprintable == [t |-> "object", s |-> <<>>, n |-> 1]

\* String(v) and `${v}` throw a TypeError: v cannot be converted to a
\* primitive value
stringThrows(v) == v.t = "object" /\ v.n = 1

\* !v
Falsy(v) ==
    \/ v.t \in {"undefined", "null"}
    \/ v.t = "string" /\ v.s = <<>>
    \/ v.t \in {"number", "boolean"} /\ v.n = 0

Digit == [d \in 0..9 |-> CASE d = 0 -> "0" [] d = 1 -> "1" [] d = 2 -> "2"
                           [] d = 3 -> "3" [] d = 4 -> "4" [] d = 5 -> "5"
                           [] d = 6 -> "6" [] d = 7 -> "7" [] d = 8 -> "8"
                           [] OTHER -> "9"]

RECURSIVE NatToString(_)
NatToString(k) ==
    IF k < 10 THEN <<Digit[k]>> ELSE NatToString(k \div 10) \o <<Digit[k % 10]>>

\* v.toString() of a value that has one
JsToString(v) ==
    CASE v.t = "string" -> v.s
      [] v.t = "number" -> NatToString(v.n)
      [] v.t = "boolean" -> IF v.n = 1 THEN <<"t", "r", "u", "e">>
                                       ELSE <<"f", "a", "l", "s", "e">>
      [] OTHER -> <<>>

Whitespace == {" ", "\t", "\n"}

\* the first index of s in lo..hi whose character is not whitespace, 0 when
\* there is none (searched by halves, a string being long)
RECURSIVE FirstKept(_, _, _)
FirstKept(s, lo, hi) ==
    IF lo > hi THEN 0
    ELSE IF lo = hi THEN (IF s[lo] \in Whitespace THEN 0 ELSE lo)
    ELSE LET mid == (lo + hi) \div 2
             left == FirstKept(s, lo, mid)
         IN  IF left # 0 THEN left ELSE FirstKept(s, mid + 1, hi)

\* the last such index, 0 when there is none
RECURSIVE LastKept(_, _, _)
LastKept(s, lo, hi) ==
    IF lo > hi THEN 0
    ELSE IF lo = hi THEN (IF s[lo] \in Whitespace THEN 0 ELSE lo)
    ELSE LET mid == (lo + hi) \div 2
             right == LastKept(s, mid + 1, hi)
         IN  IF right # 0 THEN right ELSE LastKept(s, lo, mid)

\* the characters before the first that is not whitespace are dropped
TrimStart(s) ==
    LET first == FirstKept(s, 1, Len(s))
    IN  IF first = 0 THEN <<>> ELSE SubSeq(s, first, Len(s))

\* the characters after the last that is not whitespace are dropped
TrimEnd(s) ==
    LET last == LastKept(s, 1, Len(s))
    IN  IF last = 0 THEN <<>> ELSE SubSeq(s, 1, last)

\* String.prototype.trim
Trim(s) == TrimEnd(TrimStart(s))

\* String.prototype.substring(0, k)
Substring0(s, k) == IF Len(s) <= k THEN s ELSE SubSeq(s, 1, k)

\* String.prototype.replace(/c/g, by): every c of s becomes by, the other
\* characters stay (computed by halves, a string being long)
RECURSIVE ReplaceAll(_, _, _)
ReplaceAll(s, c, by) ==
    IF Len(s) = 0 THEN <<>>
    ELSE IF Len(s) = 1 THEN (IF s[1] = c THEN by ELSE s)
    ELSE LET half == Len(s) \div 2
         IN  ReplaceAll(SubSeq(s, 1, half), c, by)
             \o ReplaceAll(SubSeq(s, half + 1, Len(s)), c, by)

LowerOf(c) ==
    CASE c = "A" -> "a" [] c = "B" -> "b" [] c = "X" -> "x" [] OTHER -> c

UpperOf(c) ==
    CASE c = "a" -> "A" [] c = "b" -> "B" [] c = "c" -> "C" [] c = "d" -> "D"
      [] c = "e" -> "E" [] c = "f" -> "F" [] c = "x" -> "X" [] OTHER -> c

\* String.prototype.toUpperCase
ToUpperCase(s) == [i \in 1..Len(s) |-> UpperOf(s[i])]

\* String.prototype.toLowerCase
ToLowerCase(s) == [i \in 1..Len(s) |-> LowerOf(s[i])]

EscapeHtml(s) ==
    ReplaceAll(
      ReplaceAll(
        ReplaceAll(
          ReplaceAll(
            ReplaceAll(s, "&", <<"&", "a", "m", "p", ";">>),
            "<", <<"&", "l", "t", ";">>),
          ">", <<"&", "g", "t", ";">>),
        "\"", <<"&", "q", "u", "o", "t", ";">>),
      "'", <<"&", "#", "3", "9", ";">>)

sanitizeStringUntruncated(v) ==
    IF Falsy(v) THEN <<>>
    ELSE EscapeHtml(Trim(JsToString(v)))

sanitizeString(v) ==
    IF Falsy(v) THEN <<>>
    ELSE EscapeHtml(Substring0(Trim(JsToString(v)), 1000))

\* /^[^\s@]+@[^\s@]+\.[^\s@]+$/.test(s)
emailRegexTest(s) ==
    /\ \A i \in 1..Len(s) : s[i] \notin Whitespace
    /\ Cardinality({i \in 1..Len(s) : s[i] = "@"}) = 1
    /\ \E a \in 1..Len(s) :
         /\ s[a] = "@"
         /\ a > 1
         /\ \E d \in (a + 2)..(Len(s) - 1) : s[d] = "."

sanitizeEmail(v) ==
    LET cleaned == Substring0(
                     ToLowerCase(Trim(IF Falsy(v) THEN <<>> ELSE JsToString(v))),
                     254)
    IN  IF emailRegexTest(cleaned) THEN cleaned ELSE <<>>

PhoneChars == {"0", "1", "2", "3", "4", "5", "6", "7", "8", "9",
               "+", "-", "(", ")", " "}

sanitizePhone(v) ==
    IF Falsy(v) THEN <<>>
    ELSE Substring0(SelectSeq(JsToString(v), LAMBDA c : c \in PhoneChars), 20)


(***************************************************************************)
(* Rate limiter.  rateLimitMap[h] is the Map of handler module h: a set of *)
(* entries, each under its key.                                            *)
(***************************************************************************)
\* Map.prototype.get: the entries stored under key ip
mapGet(m, ip) == {e \in m : e.ip = ip}

mapSetKeepingOld(m, ip, e) == m \cup {e}

\* Map.prototype.set: the entry under key ip is replaced
mapSet(m, ip, e) == {x \in m : x.ip # ip} \cup {e}

windowElapsedAtBoundary(entry, t) == t - entry.windowStart >= RATE_LIMIT_WINDOW_MS

\* now - entry.windowStart > RATE_LIMIT_WINDOW_MS
windowElapsed(entry, t) == t - entry.windowStart > RATE_LIMIT_WINDOW_MS

overLimitOffByOne(count) == count > RATE_LIMIT_MAX + 1

\* entry.count > RATE_LIMIT_MAX
overLimit(count) == count > RATE_LIMIT_MAX

incrementLost(entry) == entry

\* entry.count += 1
increment(entry) == [entry EXCEPT !.count = @ + 1]

freshEntryCountZero(ip, t) == [ip |-> ip, windowStart |-> t, count |-> 0]

\* { windowStart: now, count: 1 }
freshEntry(ip, t) == [ip |-> ip, windowStart |-> t, count |-> 1]

isRateLimitedSlidingOnReject(m, ip, t) ==
    LET found == mapGet(m, ip)
    IN  IF found = {} \/ (\E entry \in found : windowElapsed(entry, t))
        THEN [map |-> mapSet(m, ip, freshEntry(ip, t)), limited |-> FALSE]
        ELSE LET entry == CHOOSE e \in found : TRUE
                 bumped == increment(entry)
             IN  IF overLimit(bumped.count)
                 THEN [map |-> (m \ {entry})
                                 \cup {[bumped EXCEPT !.windowStart = t]},
                       limited |-> TRUE]
                 ELSE [map |-> (m \ {entry}) \cup {bumped}, limited |-> FALSE]

\* isRateLimited(ip) at Date.now() = t: the map after the call and the result
isRateLimited(m, ip, t) ==
    LET found == mapGet(m, ip)
    IN  IF found = {} \/ (\E entry \in found : windowElapsed(entry, t))
        THEN [map |-> mapSet(m, ip, freshEntry(ip, t)), limited |-> FALSE]
        ELSE LET entry == CHOOSE e \in found : TRUE
                 bumped == increment(entry)
             IN  [map |-> (m \ {entry}) \cup {bumped},
                  limited |-> overLimit(bumped.count)]

\* (req.headers["x-forwarded-for"] || "").split(",")[0].trim()
\*   || req.socket?.remoteAddress || "unknown"
\* xff is the header split at its commas, each part trimmed (<<"">> when the
\* header is absent or empty).
sourceKey(req) ==
    IF req.xff[1] # "" THEN req.xff[1]
    ELSE IF req.remoteAddress # "" THEN req.remoteAddress
    ELSE "unknown"

Keys == IPs \cup {"unknown"}


(***************************************************************************)
(* Requests.  A request is [method, xff, remoteAddress, signature, body].  *)
(* req.body is what the runtime hands over: nothing (undefined), a string  *)
(* (raw text, which parses as JSON or not) or an already parsed value.     *)
(* wire names the text the sender transmitted (and signed).  tag names the *)
(* handler's rawBody, the text it measures and verifies: req.body itself   *)
(* when that is a string, JSON.stringify(req.body) otherwise, which is the *)
(* transmitted text only if that was written the way JSON.stringify writes *)
(* it.  bytes is Buffer.byteLength(rawBody).                               *)
(***************************************************************************)
NoSignature == [present |-> FALSE, hex |-> <<>>]
Signature(chars) == [present |-> TRUE, hex |-> chars]

BodyUndefined ==
    [kind |-> "undefined", parses |-> FALSE, bytes |-> 0, tag |-> 0,
     wire |-> 0, data |-> [t |-> "undefined", f |-> <<>>]]
BodyString(parses, bytes, tag, data) ==
    [kind |-> "string", parses |-> parses, bytes |-> bytes, tag |-> tag,
     wire |-> tag, data |-> data]
BodyValue(bytes, tag, data) ==
    [kind |-> "value", parses |-> TRUE, bytes |-> bytes, tag |-> tag,
     wire |-> tag, data |-> data]
\* a parsed body whose transmitted text is not what JSON.stringify writes
BodyReserialized(bytes, wire, tag, data) ==
    [kind |-> "value", parses |-> TRUE, bytes |-> bytes, tag |-> tag,
     wire |-> wire, data |-> data]

Obj(fields) == [t |-> "object", f |-> fields]
NonObj(type) == [t |-> type, f |-> <<>>]

\* data[name]
Field(data, name) ==
    IF data.t = "object" /\ name \in DOMAIN data.f THEN data.f[name]
    ELSE Undefined

\* !data || typeof data !== "object"
notAnObject(data) == data.t \notin {"object", "array"}

(***************************************************************************)
(* One invocation: the handler's locals, the outbound POSTs it issued (in  *)
(* order, each with its outcome), the console lines it wrote and the       *)
(* response it sent.                                                       *)
(***************************************************************************)
Absent == "<absent>"
NoBody == [success |-> FALSE, message |-> Absent, error |-> Absent, missing |-> <<>>]
ErrorBody(text) == [NoBody EXCEPT !.error = text]
MissingBody(fields) ==
    [NoBody EXCEPT !.error = "Missing required fields", !.missing = fields]
SuccessBody(text) == [NoBody EXCEPT !.success = TRUE, !.message = text]
SuccessOnlyBody == [NoBody EXCEPT !.success = TRUE]

NoRequest == [method |-> "none"]

Idle ==
    [pc |-> "idle", handler |-> "none", key |-> "none", limited |-> FALSE,
     req |-> NoRequest, sanitized |-> <<>>, validated |-> FALSE, discordOk |-> FALSE, sendgridOk |-> FALSE,
     posts |-> <<>>, logs |-> <<>>, status |-> 0, body |-> NoBody]

Awaiting == {"awaitDiscord", "awaitSendgrid", "awaitAdmin", "awaitForward"}

\* res.status(code).json(body)
Respond(rec, code, body) ==
    [rec EXCEPT !.pc = "done", !.status = code, !.body = body]

\* an exception leaves the handler: its promise rejects and it sends nothing
Throw(rec) == [rec EXCEPT !.pc = "threw"]

\* console.error / console.warn
Log(rec, line) == [rec EXCEPT !.logs = Append(@, line)]

\* postJSON(url, body, headers): the request is written and the handler awaits
IssuePost(rec, to, kind, pc) ==
    [rec EXCEPT !.pc = pc,
                !.posts = Append(@, [to |-> to, kind |-> kind,
                                     st |-> "pending", status |-> 0])]

\* the promise of the last postJSON settles with outcome o
SettlePost(rec, o) ==
    [rec EXCEPT !.posts[Len(rec.posts)] =
                   [@ EXCEPT !.st = o.st, !.status = o.status]]

(***************************************************************************)
(* The fallback ladder of the contact and quote handlers.                  *)
(***************************************************************************)
discordDeliveredUpTo300(status) == status >= 200 /\ status <= 300

\* discordResult.status >= 200 && discordResult.status < 300
discordDelivered(status) == status >= 200 /\ status < 300

sendgridDeliveredBelow300(status) == status < 300

\* emailResult.status < 400
sendgridDelivered(status) == status < 400

\* process.env.DISCORD_WEBHOOK_CONTACT;
\* process.env.DISCORD_WEBHOOK_QUOTES || process.env.DISCORD_WEBHOOK_URL_ORDER
discordUrl(h, e) ==
    CASE h = "contact" -> e["DISCORD_WEBHOOK_CONTACT"]
      [] h = "quote" -> e["DISCORD_WEBHOOK_QUOTES"] \/ e["DISCORD_WEBHOOK_URL_ORDER"]
      [] OTHER -> e["DISCORD_WEBHOOK_URL_ORDER"]

adminFallbackDueAlways(rec, e) == e["ADMIN_EMAIL"] /\ e["SENDGRID_API_KEY"]

\* !discordOk && adminEmail && sendgridKey
adminFallbackDue(rec, e) ==
    ~rec.discordOk /\ e["ADMIN_EMAIL"] /\ e["SENDGRID_API_KEY"]

recoveryLogDueOnPrimaryOnly(rec) == ~rec.discordOk

recoveryLogDueAfterAttempts(rec) ==
    ~rec.discordOk /\ ~rec.sendgridOk /\ rec.posts # <<>>

\* !discordOk && !sendgridOk
recoveryLogDue(rec) == ~rec.discordOk /\ ~rec.sendgridOk

successMessage(h) ==
    IF h = "contact" THEN "Message sent! We'll respond within 24 hours."
    ELSE "Quote request received! Check your email for confirmation."

ladderFinishFailing(rec) ==
    IF recoveryLogDue(rec)
    THEN Respond(Log(rec, "SUBMISSION_RECOVERY"), 502,
                 ErrorBody("Failed to forward to notification service"))
    ELSE Respond(rec, 200, SuccessBody(successMessage(rec.handler)))

\* "Last resort" and "Success response"
ladderFinish(rec) ==
    Respond(IF recoveryLogDue(rec) THEN Log(rec, "SUBMISSION_RECOVERY") ELSE rec,
            200, SuccessBody(successMessage(rec.handler)))

\* "Admin fallback": the step after the auto-reply attempt
ladderAdmin(rec, e) ==
    IF adminFallbackDue(rec, e)
    THEN IssuePost(rec, "sendgrid", "admin", "awaitAdmin")
    ELSE ladderFinish(rec)

ladderSendgridUnlessDelivered(rec, e) ==
    IF e["SENDGRID_API_KEY"] /\ ~rec.discordOk
    THEN IssuePost(rec, "sendgrid", "autoreply", "awaitSendgrid")
    ELSE ladderAdmin(rec, e)

\* "Send auto-reply email via SendGrid": the step after the Discord attempt
ladderSendgrid(rec, e) ==
    IF e["SENDGRID_API_KEY"]
    THEN IssuePost(rec, "sendgrid", "autoreply", "awaitSendgrid")
    ELSE ladderAdmin(rec, e)

ladderDiscordDeduplicating(rec, e) ==
    IF \E s \in Slots : inv[s].req = rec.req /\ inv[s].posts # <<>>
    THEN ladderSendgrid(rec, e)
    ELSE IF discordUrl(rec.handler, e)
    THEN IssuePost(rec, "discord", "primary", "awaitDiscord")
    ELSE ladderSendgrid(Log(rec, "Discord webhook is not configured"), e)

ladderDiscordInParallel(rec, e) ==
    IF discordUrl(rec.handler, e) /\ e["SENDGRID_API_KEY"]
    THEN IssuePost(IssuePost(rec, "discord", "primary", "awaitDiscord"),
                   "sendgrid", "autoreply", "awaitSendgrid")
    ELSE IF discordUrl(rec.handler, e)
    THEN IssuePost(rec, "discord", "primary", "awaitDiscord")
    ELSE ladderSendgrid(Log(rec, "Discord webhook is not configured"), e)

\* "Send to Discord": the first step of a validated submission
ladderDiscord(rec, e) ==
    IF discordUrl(rec.handler, e)
    THEN IssuePost(rec, "discord", "primary", "awaitDiscord")
    ELSE ladderSendgrid(Log(rec, "Discord webhook is not configured"), e)

afterDiscordUncaught(rec, o, e) ==
    LET r == SettlePost(rec, o)
    IN  IF o.st = "error"
        THEN Respond(Log(r, "Discord webhook error"), 500,
                     ErrorBody("Internal server error"))
        ELSE IF discordDelivered(o.status)
        THEN ladderSendgrid([r EXCEPT !.discordOk = TRUE], e)
        ELSE ladderSendgrid(Log(r, "Discord webhook failed"), e)

afterDiscordRetryingOnce(rec, o, e) ==
    LET r == SettlePost(rec, o)
    IN  IF o.st = "response" /\ discordDelivered(o.status)
        THEN ladderSendgrid([r EXCEPT !.discordOk = TRUE], e)
        ELSE IF Len(r.posts) < 2
        THEN IssuePost(Log(r, "Discord webhook failed"), "discord", "primary",
                       "awaitDiscord")
        ELSE ladderSendgrid(Log(r, "Discord webhook failed"), e)

\* the continuation of `await postJSON(discordUrl, discordPayload)`
afterDiscord(rec, o, e) ==
    LET r == SettlePost(rec, o)
    IN  IF o.st = "error"
        THEN ladderSendgrid(Log(r, "Discord webhook error"), e)
        ELSE IF discordDelivered(o.status)
        THEN ladderSendgrid([r EXCEPT !.discordOk = TRUE], e)
        ELSE ladderSendgrid(Log(r, "Discord webhook failed"), e)

\* the continuation of the auto-reply `await postJSON(...)`
afterSendgrid(rec, o, e) ==
    LET r == SettlePost(rec, o)
    IN  IF o.st = "error"
        THEN ladderAdmin(Log(r, "SendGrid error"), e)
        ELSE IF sendgridDelivered(o.status)
        THEN ladderAdmin([r EXCEPT !.sendgridOk = TRUE], e)
        ELSE ladderAdmin(Log(r, "SendGrid failed"), e)

afterAdminEscalating(rec, o) ==
    LET r == SettlePost(rec, o)
    IN  IF o.st = "error" \/ o.status >= 400
        THEN Respond(Log(Log(r, "Admin fallback email error"), "SUBMISSION_RECOVERY"),
                     200, SuccessBody(successMessage(r.handler)))
        ELSE ladderFinish(r)

\* the continuation of the admin fallback `await postJSON(...)`
afterAdmin(rec, o) ==
    LET r == SettlePost(rec, o)
    IN  IF o.st = "error"
        THEN ladderFinish(Log(r, "Admin fallback email error"))
        ELSE ladderFinish(r)


(***************************************************************************)
(* Validation tables.                                                      *)
(***************************************************************************)
VALID_SERVICES ==
    {<<"3", "d", "-", "p", "r", "i", "n", "t", "i", "n", "g">>,
     <<"d", "t", "f", "-", "t", "r", "a", "n", "s", "f", "e", "r", "s">>,
     <<"l", "a", "s", "e", "r", "-", "s", "e", "r", "v", "i", "c", "e", "s">>,
     <<"s", "u", "b", "l", "i", "m", "a", "t", "i", "o", "n">>}

VALID_TIMELINES ==
    {<<"r", "u", "s", "h">>,
     <<"s", "t", "a", "n", "d", "a", "r", "d">>,
     <<"f", "l", "e", "x", "i", "b", "l", "e">>,
     <<"o", "n", "g", "o", "i", "n", "g">>}

VALID_ORDER_TYPES ==
    {<<"c", "u", "s", "t", "o", "m", "-", "p", "r", "i", "n", "t">>,
     <<"m", "i", "n", "i", "a", "t", "u", "r", "e">>,
     <<"p", "r", "o", "t", "o", "t", "y", "p", "e">>,
     <<"b", "u", "l", "k", "-", "o", "r", "d", "e", "r">>,
     <<"r", "e", "p", "a", "i", "r">>,
     <<"o", "t", "h", "e", "r">>}

QUOTE_REQUIRED_FIELDS ==
    <<"service", "firstName", "lastName", "email", "phone", "quantity", "timeline">>

ORDER_REQUIRED_FIELDS ==
    <<"name", "email", "phone", "orderType", "material", "description">>

isMissingWhenFalsy(v) == Falsy(v)

\* val === undefined || val === null || val === ""
isMissing(v) ==
    \/ v.t \in {"undefined", "null"}
    \/ v.t = "string" /\ v.s = <<>>

\* REQUIRED_FIELDS.filter(...)
missingFields(required, data) ==
    SelectSeq(required, LAMBDA f : isMissing(Field(data, f)))

\* VALID.includes(v)
includes(valid, v) == v.t = "string" /\ v.s \in valid

(***************************************************************************)
(* Signature of the webhook handlers.  The digest stands for HMAC-SHA256   *)
(* under the configured secret: DigestLen bytes that differ from one raw   *)
(* body to another.                                                        *)
(***************************************************************************)
HexDigits == <<"0", "1", "2", "3", "4", "5", "6", "7", "8", "9",
               "a", "b", "c", "d", "e", "f">>

hexValue(c) ==
    CASE c = "A" -> 10 [] c = "B" -> 11 [] c = "C" -> 12
      [] c = "D" -> 13 [] c = "E" -> 14 [] c = "F" -> 15
      [] \E i \in 1..16 : HexDigits[i] = c ->
             (CHOOSE i \in 1..16 : HexDigits[i] = c) - 1
      [] OTHER -> -1

\* digest("hex")
hexEncode(bytes) ==
    [i \in 1..(2 * Len(bytes)) |->
        IF i % 2 = 1 THEN HexDigits[(bytes[(i + 1) \div 2] \div 16) + 1]
        ELSE HexDigits[(bytes[i \div 2] % 16) + 1]]

\* Buffer.from(text, "hex"): whole pairs of hex digits, up to the first pair
\* that is not one
RECURSIVE bufferFromHex(_)
bufferFromHex(text) ==
    IF Len(text) < 2 \/ hexValue(text[1]) < 0 \/ hexValue(text[2]) < 0
    THEN <<>>
    ELSE <<16 * hexValue(text[1]) + hexValue(text[2])>>
         \o bufferFromHex(SubSeq(text, 3, Len(text)))

\* crypto.createHmac("sha256", secret).update(payload).digest()
hmacDigest(tag) == <<(37 * tag + 11) % 256, (101 * tag + 7) % 256>>

verifySignatureAcceptingAny(tag, signature) == [threw |-> FALSE, equal |-> TRUE]

\* verifySignature(payload, signature, secret): timingSafeEqual throws on
\* buffers of different lengths
verifySignature(tag, signature) ==
    LET given == bufferFromHex(signature)
        expected == bufferFromHex(hexEncode(hmacDigest(tag)))
    IN  [threw |-> Len(given) # Len(expected), equal |-> given = expected]

signatureRejectedWithoutSecret(req, e) ==
    \/ ~req.signature.present
    \/ req.signature.hex = <<>>
    \/ LET v == verifySignature(req.body.tag, req.signature.hex)
       IN  v.threw \/ ~v.equal

\* "Signature validation": the 401 responses
signatureRejected(req, e) ==
    /\ e["WEBHOOK_SECRET"]
    /\ \/ ~req.signature.present
       \/ req.signature.hex = <<>>
       \/ LET v == verifySignature(req.body.tag, req.signature.hex)
          IN  v.threw \/ ~v.equal

signatureErrorUniform(req) == "Invalid webhook signature"

\* the error of the 401: the header is absent (or empty), or verification
\* returned false or threw
signatureError(req) ==
    IF ~req.signature.present \/ req.signature.hex = <<>>
    THEN "Missing webhook signature"
    ELSE "Invalid webhook signature"

(***************************************************************************)
(* The relay of the webhook handlers.                                      *)
(***************************************************************************)
forwardFailedFrom400(status) == status >= 400

\* result.status < 200 || result.status >= 300
forwardFailed(status) == status < 200 \/ status >= 300

\* OPTIONAL_FIELDS of the order webhook
ORDER_OPTIONAL_FIELDS ==
    <<"quantity", "color", "deadline", "shippingAddress", "message">>

\* the optional fields the quote webhook writes into the embed when truthy
QUOTE_EMBED_FIELDS ==
    <<"dimensions", "materials", "budget", "contactMethod", "referral",
      "description">>

Range(seq) == {seq[i] : i \in DOMAIN seq}

\* buildEmbed(data) throws: a value it converts to a string cannot be
\* converted.  The order webhook converts its required fields and the
\* optional fields that are present; the quote webhook converts the names,
\* email, phone and quantity, service and timeline when they have no label,
\* and the optional fields that are truthy.
buildEmbedThrows(h, data) ==
    IF h = "order"
    THEN \/ \E f \in Range(ORDER_REQUIRED_FIELDS) : stringThrows(Field(data, f))
         \/ \E f \in Range(ORDER_OPTIONAL_FIELDS) :
               ~isMissing(Field(data, f)) /\ stringThrows(Field(data, f))
    ELSE \/ \E f \in {"firstName", "lastName", "email", "phone", "quantity"} :
               stringThrows(Field(data, f))
         \/ ~includes(VALID_SERVICES, Field(data, "service"))
               /\ stringThrows(Field(data, "service"))
         \/ ~includes(VALID_TIMELINES, Field(data, "timeline"))
               /\ stringThrows(Field(data, "timeline"))
         \/ \E f \in Range(QUOTE_EMBED_FIELDS) :
               ~Falsy(Field(data, f)) /\ stringThrows(Field(data, f))

forwardWithoutDestinationCheck(rec, e) ==
    IssuePost(rec, "discord", "forward", "awaitForward")

\* "Build embed and forward to Discord"
forward(rec, e) ==
    IF ~discordUrl(rec.handler, e)
    THEN Respond(Log(rec, "DISCORD_WEBHOOK_URL_ORDER is not configured"),
                 503, ErrorBody("Webhook destination not configured"))
    ELSE IF buildEmbedThrows(rec.handler, rec.req.body.data)
    THEN Respond(Log(rec, "Discord request failed"), 502,
                 ErrorBody("Failed to forward to notification service"))
    ELSE IssuePost(rec, "discord", "forward", "awaitForward")

afterForwardWithMessage(rec, o) ==
    LET r == SettlePost(rec, o)
    IN  IF o.st = "error" \/ forwardFailed(o.status)
        THEN Respond(Log(r, "Discord request failed"), 502,
                     ErrorBody("Failed to forward to notification service"))
        ELSE Respond(r, 200, SuccessBody("Forwarded"))

\* the continuation of `await postJSON(discordUrl, embed)`
afterForward(rec, o) ==
    LET r == SettlePost(rec, o)
    IN  IF o.st = "error"
        THEN Respond(Log(r, "Discord request failed"), 502,
                     ErrorBody("Failed to forward to notification service"))
        ELSE IF forwardFailed(o.status)
        THEN Respond(Log(r, "Discord API error"), 502,
                     ErrorBody("Failed to forward to notification service"))
        ELSE Respond(r, 200, SuccessOnlyBody)

(***************************************************************************)
(* The handlers, from the arrival of a request to the first await or the   *)
(* response.  limited is the result of isRateLimited(ip), which a POST     *)
(* request calls right after the method check.                             *)
(***************************************************************************)
\* sanitizedData of the contact handler
contactSanitize(data) ==
    [name |-> sanitizeString(Field(data, "name")),
     email |-> sanitizeEmail(Field(data, "email")),
     subject |-> sanitizeString(Field(data, "subject")),
     message |-> sanitizeString(Field(data, "message"))]

contactValidate(rec, data, e) ==
    LET r == [rec EXCEPT !.sanitized = contactSanitize(data)]
    IN  IF r.sanitized.email = <<>>
        THEN Respond(r, 400, ErrorBody("Valid email address is required"))
        ELSE IF r.sanitized.message = <<>>
        THEN Respond(r, 400, ErrorBody("Message is required"))
        ELSE IF r.sanitized.name = <<>>
        THEN Respond(r, 400, ErrorBody("Name is required"))
        ELSE ladderDiscord([r EXCEPT !.validated = TRUE], e)

contactHandler(rec, req, limited, e) ==
    IF req.method # "POST"
    THEN Respond(rec, 405, ErrorBody("Method not allowed"))
    ELSE IF limited
    THEN Respond(rec, 429, ErrorBody("Too many requests. Try again later."))
    ELSE IF req.body.kind = "undefined"
    THEN Throw(rec)
    ELSE IF req.body.bytes > MAX_BODY_BYTES
    THEN Respond(rec, 413, ErrorBody("Payload too large"))
    ELSE IF req.body.kind = "string" /\ ~req.body.parses
    THEN Respond(rec, 400, ErrorBody("Invalid JSON body"))
    ELSE IF notAnObject(req.body.data)
    THEN Respond(rec, 400, ErrorBody("Request body must be a JSON object"))
    ELSE contactValidate(rec, req.body.data, e)

\* sanitizedData of the quote handler (the fields the handler goes on to use)
quoteSanitize(data) ==
    [service |-> sanitizeString(Field(data, "service")),
     timeline |-> sanitizeString(Field(data, "timeline")),
     firstName |-> sanitizeString(Field(data, "firstName")),
     lastName |-> sanitizeString(Field(data, "lastName")),
     email |-> sanitizeEmail(Field(data, "email")),
     phone |-> sanitizePhone(Field(data, "phone"))]

quoteValidateAfterNotifying(rec, data, e) ==
    LET r == [rec EXCEPT !.sanitized = quoteSanitize(data)]
        missing == missingFields(QUOTE_REQUIRED_FIELDS, data)
    IN  IF missing # <<>>
        THEN Respond(r, 400, MissingBody(missing))
        ELSE IF r.sanitized.email = <<>>
        THEN Respond(r, 400, ErrorBody("Invalid email address"))
        ELSE IF ~includes(VALID_SERVICES, Field(data, "service"))
        THEN Respond(r, 400, ErrorBody("Invalid service"))
        ELSE IF ~includes(VALID_TIMELINES, Field(data, "timeline"))
        THEN Respond(IssuePost(r, "discord", "primary", "awaitDiscord"),
                     400, ErrorBody("Invalid timeline"))
        ELSE ladderDiscord([r EXCEPT !.validated = TRUE], e)

\* "Validate & sanitize": sanitizedData is built first, the checks follow
quoteValidate(rec, data, e) ==
    LET r == [rec EXCEPT !.sanitized = quoteSanitize(data)]
        missing == missingFields(QUOTE_REQUIRED_FIELDS, data)
    IN  IF missing # <<>>
        THEN Respond(r, 400, MissingBody(missing))
        ELSE IF r.sanitized.email = <<>>
        THEN Respond(r, 400, ErrorBody("Invalid email address"))
        ELSE IF ~includes(VALID_SERVICES, Field(data, "service"))
        THEN Respond(r, 400, ErrorBody("Invalid service"))
        ELSE IF ~includes(VALID_TIMELINES, Field(data, "timeline"))
        THEN Respond(r, 400, ErrorBody("Invalid timeline"))
        ELSE ladderDiscord([r EXCEPT !.validated = TRUE], e)

quoteHandler(rec, req, limited, e) ==
    IF req.method # "POST"
    THEN Respond(rec, 405, ErrorBody("Method not allowed"))
    ELSE IF limited
    THEN Respond(rec, 429, ErrorBody("Too many requests. Try again later."))
    ELSE IF req.body.kind = "undefined"
    THEN Throw(rec)
    ELSE IF req.body.bytes > MAX_BODY_BYTES
    THEN Respond(rec, 413, ErrorBody("Payload too large"))
    ELSE IF req.body.kind = "string" /\ ~req.body.parses
    THEN Respond(rec, 400, ErrorBody("Invalid JSON body"))
    ELSE IF notAnObject(req.body.data)
    THEN Respond(rec, 400, ErrorBody("Request body must be a JSON object"))
    ELSE quoteValidate(rec, req.body.data, e)

orderValidate(rec, data, e) ==
    LET missing == missingFields(ORDER_REQUIRED_FIELDS, data)
    IN  IF missing # <<>>
        THEN Respond(rec, 400, MissingBody(missing))
        ELSE IF ~includes(VALID_ORDER_TYPES, Field(data, "orderType"))
        THEN Respond(rec, 400, ErrorBody("Invalid orderType"))
        ELSE forward([rec EXCEPT !.validated = TRUE], e)

orderWebhookHandlerSignatureFirst(rec, req, limited, e) ==
    IF req.method # "POST"
    THEN Respond(rec, 405, ErrorBody("Method not allowed"))
    ELSE IF limited
    THEN Respond(Log(rec, "Rate limited"), 429,
                 ErrorBody("Too many requests. Try again later."))
    ELSE IF req.body.kind = "undefined"
    THEN Throw(rec)
    ELSE IF signatureRejected(req, e)
    THEN Respond(rec, 401, ErrorBody(signatureError(req)))
    ELSE IF req.body.bytes > MAX_BODY_BYTES
    THEN Respond(rec, 413, ErrorBody("Payload too large"))
    ELSE LET r == IF e["WEBHOOK_SECRET"] THEN rec
                  ELSE Log(rec, "WEBHOOK_SECRET is not set")
         IN  IF req.body.kind = "string" /\ ~req.body.parses
             THEN Respond(r, 400, ErrorBody("Invalid JSON body"))
             ELSE IF notAnObject(req.body.data)
             THEN Respond(r, 400, ErrorBody("Request body must be a JSON object"))
             ELSE orderValidate(r, req.body.data, e)

orderWebhookHandler(rec, req, limited, e) ==
    IF req.method # "POST"
    THEN Respond(rec, 405, ErrorBody("Method not allowed"))
    ELSE IF limited
    THEN Respond(Log(rec, "Rate limited"), 429,
                 ErrorBody("Too many requests. Try again later."))
    ELSE IF req.body.kind = "undefined"
    THEN Throw(rec)
    ELSE IF req.body.bytes > MAX_BODY_BYTES
    THEN Respond(rec, 413, ErrorBody("Payload too large"))
    ELSE IF signatureRejected(req, e)
    THEN Respond(rec, 401, ErrorBody(signatureError(req)))
    ELSE LET r == IF e["WEBHOOK_SECRET"] THEN rec
                  ELSE Log(rec, "WEBHOOK_SECRET is not set")
         IN  IF req.body.kind = "string" /\ ~req.body.parses
             THEN Respond(r, 400, ErrorBody("Invalid JSON body"))
             ELSE IF notAnObject(req.body.data)
             THEN Respond(r, 400, ErrorBody("Request body must be a JSON object"))
             ELSE orderValidate(r, req.body.data, e)

quoteWebhookValidate(rec, data, e) ==
    LET missing == missingFields(QUOTE_REQUIRED_FIELDS, data)
    IN  IF missing # <<>>
        THEN Respond(rec, 400, MissingBody(missing))
        ELSE IF ~includes(VALID_SERVICES, Field(data, "service"))
        THEN Respond(rec, 400, ErrorBody("Invalid service"))
        ELSE IF ~includes(VALID_TIMELINES, Field(data, "timeline"))
        THEN Respond(rec, 400, ErrorBody("Invalid timeline"))
        ELSE forward([rec EXCEPT !.validated = TRUE], e)

quoteWebhookHandler(rec, req, limited, e) ==
    IF req.method # "POST"
    THEN Respond(rec, 405, ErrorBody("Method not allowed"))
    ELSE IF limited
    THEN Respond(Log(rec, "Rate limited"), 429,
                 ErrorBody("Too many requests. Try again later."))
    ELSE IF req.body.kind = "undefined"
    THEN Throw(rec)
    ELSE IF req.body.bytes > MAX_BODY_BYTES
    THEN Respond(rec, 413, ErrorBody("Payload too large"))
    ELSE IF signatureRejected(req, e)
    THEN Respond(rec, 401, ErrorBody(signatureError(req)))
    ELSE LET r == IF e["WEBHOOK_SECRET"] THEN rec
                  ELSE Log(rec, "WEBHOOK_SECRET is not set")
         IN  IF req.body.kind = "string" /\ ~req.body.parses
             THEN Respond(r, 400, ErrorBody("Invalid JSON body"))
             ELSE IF notAnObject(req.body.data)
             THEN Respond(r, 400, ErrorBody("Request body must be a JSON object"))
             ELSE quoteWebhookValidate(r, req.body.data, e)

handler(h, rec, req, limited, e) ==
    CASE h = "contact" -> contactHandler(rec, req, limited, e)
      [] h = "quote" -> quoteHandler(rec, req, limited, e)
      [] h = "order" -> orderWebhookHandler(rec, req, limited, e)
      [] OTHER -> quoteWebhookHandler(rec, req, limited, e)


(***************************************************************************)
(* The requests and outcomes the environment chooses from.                 *)
(***************************************************************************)
ContactValid ==
    [name |-> Str(<<"A", "n", "n">>), email |-> Str(<<"a", "n", "n", "@", "x", ".", "c", "o", "m">>), message |-> Str(<<"h", "i">>)]

ContactPayloads ==
    {ContactValid,
     [ContactValid EXCEPT !.email = Str(<<" ", "A", "n", "n", "@", "X", ".", "c", "o", "m", " ">>)],
     [ContactValid EXCEPT !.email = Str(<<"n", "o", "t", "-", "a", "n", "-", "e", "m", "a", "i", "l">>)],
     [ContactValid EXCEPT !.email = Null],
     [ContactValid EXCEPT !.message = Str(<<" ", " ">>)],
     [ContactValid EXCEPT !.name = Str(<<>>)],
     [ContactValid EXCEPT !.name = Str(<<"<", "b", ">">>)],
     [ContactValid EXCEPT !.name = Num(7)],
     [email |-> Str(<<"a", "n", "n", "@", "x", ".", "c", "o", "m">>), message |-> Str(<<"h", "i">>)]}

QuoteValid ==
    [service |-> Str(<<"s", "u", "b", "l", "i", "m", "a", "t", "i", "o", "n">>), firstName |-> Str(<<"A", "n", "n">>),
     lastName |-> Str(<<"B">>), email |-> Str(<<"a", "n", "n", "@", "x", ".", "c", "o", "m">>),
     phone |-> Str(<<"5", "5", "5">>), quantity |-> Num(3),
     timeline |-> Str(<<"r", "u", "s", "h">>)]

QuotePayloads ==
    {QuoteValid,
     [QuoteValid EXCEPT !.quantity = Num(0)],
     [QuoteValid EXCEPT !.timeline = Str(<<>>)],
     [QuoteValid EXCEPT !.timeline = Null],
     [QuoteValid EXCEPT !.timeline = Str(<<"s", "o", "o", "n">>)],
     [QuoteValid EXCEPT !.service = Str(<<"s", "o", "o", "n">>)],
     [QuoteValid EXCEPT !.service = Str(<<" ">>), !.timeline = Str(<<"s", "o", "o", "n">>)],
     [QuoteValid EXCEPT !.email = Str(<<"n", "o", "t", "-", "a", "n", "-", "e", "m", "a", "i", "l">>)],
     [QuoteValid EXCEPT !.email = Str(<<"n", "o", "t", "-", "a", "n", "-", "e", "m", "a", "i", "l">>), !.service = Null],
     [QuoteValid EXCEPT !.firstName = Str(<<" ">>)],
     [QuoteValid EXCEPT !.phone = Null, !.lastName = Str(<<>>)],
     [service |-> Str(<<"s", "u", "b", "l", "i", "m", "a", "t", "i", "o", "n">>), firstName |-> Str(<<"A", "n", "n">>),
      lastName |-> Str(<<"B">>), email |-> Str(<<"a", "n", "n", "@", "x", ".", "c", "o", "m">>),
      phone |-> Str(<<"5", "5", "5">>), quantity |-> Num(3)]}

OrderValid ==
    [name |-> Str(<<"A", "n", "n">>), email |-> Str(<<"a", "n", "n", "@", "x", ".", "c", "o", "m">>),
     phone |-> Str(<<"5", "5", "5">>), orderType |-> Str(<<"r", "e", "p", "a", "i", "r">>),
     material |-> Str(<<"P", "L", "A">>), description |-> Str(<<"h", "i">>)]

OrderPayloads ==
    {OrderValid,
     [OrderValid EXCEPT !.email = Str(<<"n", "o", "t", "-", "a", "n", "-", "e", "m", "a", "i", "l">>)],
     [OrderValid EXCEPT !.orderType = Str(<<"s", "o", "o", "n">>)],
     [OrderValid EXCEPT !.orderType = Null, !.material = Str(<<>>)],
     [OrderValid EXCEPT !.description = Str(<<>>)],
     [name |-> Str(<<"A", "n", "n">>), email |-> Str(<<"a", "n", "n", "@", "x", ".", "c", "o", "m">>),
      phone |-> Str(<<"5", "5", "5">>), orderType |-> Str(<<"r", "e", "p", "a", "i", "r">>),
      material |-> Str(<<"P", "L", "A">>)]}

Payloads(h) ==
    CASE h = "contact" -> ContactPayloads
      [] h = "quote" -> QuotePayloads
      [] h = "order" ->
           OrderPayloads \cup {[OrderValid EXCEPT !.name = Unprintable]}
      [] OTHER ->
           QuotePayloads \cup {[QuoteValid EXCEPT !.lastName = Unprintable]}

ValidPayload(h) ==
    CASE h = "contact" -> ContactValid
      [] h = "quote" -> QuoteValid
      [] h = "order" -> OrderValid
      [] OTHER -> QuoteValid

\* Raw bodies: tag names the text, so that two bodies differ in their digest.
Bodies(h) ==
    {BodyValue(120, 1, Obj(p)) : p \in Payloads(h)}
    \cup {BodyUndefined,
          BodyString(FALSE, 9, 2, NonObj("undefined")),
          BodyString(TRUE, 120, 3, Obj(ValidPayload(h))),
          BodyString(TRUE, 4, 4, NonObj("null")),
          BodyString(TRUE, 2, 5, NonObj("number")),
          BodyValue(4, 4, NonObj("null")),
          BodyValue(4, 6, NonObj("boolean")),
          BodyReserialized(120, 11, 1, Obj(ValidPayload(h))),
          BodyValue(2, 7, NonObj("array")),
          BodyValue(MAX_BODY_BYTES, 8, Obj(ValidPayload(h))),
          BodyValue(MAX_BODY_BYTES + 1, 9, Obj(ValidPayload(h))),
          BodyString(FALSE, MAX_BODY_BYTES + 1, 10, NonObj("undefined"))}

\* X-Webhook-Signature values sent with a body
Signatures(body) ==
    LET good == hexEncode(hmacDigest(body.tag))
        signed == hexEncode(hmacDigest(body.wire))
        other == hexEncode(hmacDigest(body.tag + 1))
    IN  {NoSignature, Signature(<<>>), Signature(good), Signature(signed),
         Signature(other),
         Signature(SubSeq(good, 1, 2)), Signature(good \o <<"0", "0">>),
         Signature(<<"z", "z">>),
         Signature(good \o <<"0">>), Signature(good \o <<"z", "z">>),
         Signature(ToUpperCase(good))}

OneSource == {[xff |-> <<"">>, remoteAddress |-> ""]}
TwoSources ==
    {[xff |-> <<"10.0.0.1">>, remoteAddress |-> "10.0.0.2"],
     [xff |-> <<"">>, remoteAddress |-> "10.0.0.2"]}

Request(method, src, sig, body) ==
    [method |-> method, xff |-> src.xff, remoteAddress |-> src.remoteAddress,
     signature |-> sig, body |-> body]

\* every request of the sample, from the given sources
Requests(h, srcs) ==
    UNION {{Request("POST", src, sig, b) :
              src \in srcs,
              sig \in IF h \in WebhookHandlers THEN Signatures(b)
                      ELSE {NoSignature}} : b \in Bodies(h)}
    \cup {Request(m, src, NoSignature, b) :
             m \in {"GET", "PUT"}, src \in srcs,
             b \in {BodyUndefined, BodyValue(120, 1, Obj(ValidPayload(h)))}}

\* the valid submission, correctly signed, and two requests the guards reject
BriefRequests(h, srcs) ==
    LET b == BodyValue(120, 1, Obj(ValidPayload(h)))
    IN  {Request("POST", src, Signature(hexEncode(hmacDigest(1))), b) : src \in srcs}
        \cup {Request("GET", src, NoSignature, b) : src \in srcs}
        \cup {Request("POST", src, NoSignature, BodyValue(4, 4, NonObj("null"))) :
                 src \in srcs}

Statuses == {199, 200, 299, 300, 399, 400, 500}
Response(code) == [st |-> "response", status |-> code]
TransportError == [st |-> "error", status |-> 0]
Outcomes == {Response(c) : c \in Statuses} \cup {TransportError}
BriefOutcomes == {Response(200), Response(500)}

\* the variables a handler reads from process.env
EnvOf(h) ==
    CASE h = "contact" -> {"DISCORD_WEBHOOK_CONTACT", "SENDGRID_API_KEY", "ADMIN_EMAIL"}
      [] h = "quote" -> {"DISCORD_WEBHOOK_QUOTES", "DISCORD_WEBHOOK_URL_ORDER",
                         "SENDGRID_API_KEY", "ADMIN_EMAIL"}
      [] OTHER -> {"DISCORD_WEBHOOK_URL_ORDER", "WEBHOOK_SECRET"}

(***************************************************************************)
(* The reference window of a key: the fixed window the calls of the key    *)
(* fall in, kept beside the code's entry.  calls counts the calls of       *)
(* isRateLimited in the window, admitted those that returned false.        *)
(***************************************************************************)
NoWindow ==
    [open |-> FALSE, start |-> 0, last |-> 0, calls |-> 0, admitted |-> 0,
     windows |-> 0]

\* the window after a call at t that returned limited; last is the instant
\* of the latest call
Observe(w, t, limited) ==
    IF ~w.open \/ t - w.start > RATE_LIMIT_WINDOW_MS
    THEN [open |-> TRUE, start |-> t, last |-> t, calls |-> 1,
          admitted |-> IF limited THEN 0 ELSE 1,
          windows |-> IF w.windows < 2 THEN w.windows + 1 ELSE 2]
    ELSE [w EXCEPT !.calls = @ + 1, !.last = t,
                   !.admitted = IF limited THEN @ ELSE @ + 1]

(***************************************************************************)
(* State machine.                                                          *)
(***************************************************************************)
InitWith(hs) ==
    /\ now = 0
    /\ loaded \in {{h} : h \in hs}
    /\ env \in {e \in [EnvVars -> BOOLEAN] :
                  \A v \in EnvVars : e[v] => \E h \in loaded : v \in EnvOf(h)}
    /\ rateLimitMap = [h \in Handlers |-> {}]
    /\ inv = [s \in Slots |-> Idle]
    /\ hist = [h \in Handlers |-> [k \in Keys |-> NoWindow]]

moduleOfShared(h) == "contact"

reachesRateLimitAnyMethod(req) == TRUE

\* the request passes `if (req.method !== "POST") return ...405` and goes on
\* to `isRateLimited(ip)`
reachesRateLimit(req) == req.method = "POST"

\* the module whose rateLimitMap handler h uses: each handler module declares
\* its own `const rateLimitMap = new Map()`
moduleOf(h) == h

\* A request arrives at handler h and the handler runs to its first await or
\* to its response.
Arrive(s, h, req) ==
    /\ inv[s].pc = "idle"
    /\ h \in loaded
    /\ LET key == sourceKey(req)
           called == reachesRateLimit(req)
           rl == IF called
                 THEN isRateLimited(rateLimitMap[moduleOf(h)], key, now)
                 ELSE [map |-> rateLimitMap[moduleOf(h)], limited |-> FALSE]
           w == IF called THEN Observe(hist[h][key], now, rl.limited)
                ELSE hist[h][key]
           rec == [Idle EXCEPT !.handler = h, !.key = key, !.req = req,
                               !.limited = rl.limited]
       IN  /\ \A entry \in rl.map : entry.count <= MaxCount
           /\ rateLimitMap' = [rateLimitMap EXCEPT ![moduleOf(h)] = rl.map]
           /\ hist' = [hist EXCEPT ![h][key] = w]
           /\ inv' = [inv EXCEPT ![s] = handler(h, rec, req, rl.limited, env)]
    /\ UNCHANGED <<now, env, loaded>>

\* The outbound POST of invocation s settles (a response with a status, or a
\* transport error) and the handler runs on to its next await or its response.
Settle(s, o) ==
    /\ inv[s].pc \in Awaiting
    /\ inv[s].posts[Len(inv[s].posts)].st = "pending"
    /\ inv' = [inv EXCEPT ![s] =
                 CASE inv[s].pc = "awaitDiscord" -> afterDiscord(inv[s], o, env)
                   [] inv[s].pc = "awaitSendgrid" -> afterSendgrid(inv[s], o, env)
                   [] inv[s].pc = "awaitAdmin" -> afterAdmin(inv[s], o)
                   [] OTHER -> afterForward(inv[s], o)]
    /\ UNCHANGED <<now, env, loaded, rateLimitMap, hist>>

\* The downstream of the outbound POST of invocation s accepts the request and
\* never answers: postJSON sets no timeout, so its promise never settles.
Unresponsive(s) ==
    /\ inv[s].pc \in Awaiting
    /\ inv[s].posts[Len(inv[s].posts)].st = "pending"
    /\ inv' = [inv EXCEPT ![s] = SettlePost(@, [st |-> "unresponsive", status |-> 0])]
    /\ UNCHANGED <<now, env, loaded, rateLimitMap, hist>>

\* The invocation is over (responded, or rejected) and its locals are dropped.
Recycle(s) ==
    /\ inv[s].pc \in {"done", "threw"}
    /\ inv' = [inv EXCEPT ![s] = Idle]
    /\ UNCHANGED <<now, env, loaded, rateLimitMap, hist>>

\* The instants Date.now() is read at: process start, the end of the window
\* that starts there, and the MaxTicks milliseconds that follow.
Instants == {0} \cup {RATE_LIMIT_WINDOW_MS + k : k \in 0..MaxTicks}

\* Date.now() advances to a later instant.
Tick(t) ==
    /\ t > now
    /\ now' = t
    /\ UNCHANGED <<env, loaded, rateLimitMap, inv, hist>>

(***************************************************************************)
(* Spec: one handler module, one invocation at a time, every request of    *)
(* the sample and every outcome of the outbound POSTs.                     *)
(***************************************************************************)
Init == InitWith(Handlers)

Next ==
    \/ \E h \in Handlers : \E req \in Requests(h, OneSource) : Arrive(1, h, req)
    \/ \E o \in Outcomes : Settle(1, o)
    \/ Unresponsive(1)
    \/ Recycle(1)

Spec == Init /\ [][Next]_vars


(***************************************************************************)
(* SpecRate: the rate limiter of one handler module under requests from    *)
(* two sources while the clock advances.  No outbound channel is           *)
(* configured, so every invocation runs to its response in one segment.    *)
(***************************************************************************)
InitRate ==
    /\ InitWith(Handlers)
    /\ \A v \in EnvVars : ~env[v]

NextRate ==
    \/ \E h \in Handlers : \E req \in BriefRequests(h, TwoSources) : Arrive(1, h, req)
    \/ Recycle(1)
    \/ \E t \in Instants : Tick(t)

SpecRate == InitRate /\ [][NextRate]_vars

(***************************************************************************)
(* SpecConc: invocations of one handler module interleaved at their await  *)
(* points, every channel configured.                                       *)
(***************************************************************************)
InitConc ==
    /\ InitWith({"contact", "order"})
    /\ \A h \in loaded : \A v \in EnvOf(h) \ {"WEBHOOK_SECRET"} : env[v]

NextConc ==
    \/ \E s \in Slots : \E h \in Handlers :
          \E req \in BriefRequests(h, OneSource) :
             /\ \A f \in 1..(s - 1) : inv[f].pc # "idle"
             /\ Arrive(s, h, req)
    \/ \E s \in Slots : \E o \in BriefOutcomes : Settle(s, o)
    \/ \E s \in Slots : Recycle(s)
    \/ Tick(RATE_LIMIT_WINDOW_MS + 1)

SpecConc == InitConc /\ [][NextConc]_vars


(***************************************************************************)
(* What an invocation did, read from its record.                           *)
(***************************************************************************)
PostsOf(rec, kind) == {i \in DOMAIN rec.posts : rec.posts[i].kind = kind}

\* the chat-webhook POST returned a 2xx status
PrimaryDelivered(rec) ==
    \E i \in PostsOf(rec, "primary") :
       /\ rec.posts[i].st = "response"
       /\ rec.posts[i].status \in 200..299

\* the auto-reply email POST returned a status < 400
SecondaryDelivered(rec) ==
    \E i \in PostsOf(rec, "autoreply") :
       /\ rec.posts[i].st = "response"
       /\ rec.posts[i].status < 400

AdminSent(rec) == PostsOf(rec, "admin") # {}

RecoveryLogs(rec) == {i \in DOMAIN rec.logs : rec.logs[i] = "SUBMISSION_RECOVERY"}

\* the last POST ended in a non-success status or a transport failure
PostFailed(p) ==
    \/ p.st = "error"
    \/ p.st = "response" /\ p.status \notin 200..299

Responded(rec) == rec.pc = "done"

ValidatedForm(rec) == rec.handler \in FormHandlers /\ rec.validated

ClientErrors == {405, 429, 413, 401, 400}

(***************************************************************************)
(* C1.  Contact and quote handlers: when the response to a validated       *)
(* submission is sent, the chat-webhook POST returned 2xx, or the          *)
(* auto-reply POST returned a status < 400, or an admin fallback POST was  *)
(* issued, or a SUBMISSION_RECOVERY record was logged.                     *)
(***************************************************************************)
C1_NeverLostSilently ==
    \A s \in Slots :
       (ValidatedForm(inv[s]) /\ Responded(inv[s])) =>
          \/ PrimaryDelivered(inv[s])
          \/ SecondaryDelivered(inv[s])
          \/ AdminSent(inv[s])
          \/ RecoveryLogs(inv[s]) # {}

\* Nothing is configured, so nothing is attempted: the submission survives
\* in the recovery log alone.
C1_Witness ==
    \E s \in Slots :
       /\ ValidatedForm(inv[s]) /\ Responded(inv[s])
       /\ inv[s].posts = <<>>
       /\ RecoveryLogs(inv[s]) # {}

(***************************************************************************)
(* C2.  Contact and quote handlers: a request that passed validation is    *)
(* answered 200 with success = true whatever the outbound POSTs did, and   *)
(* no exception leaves the handler after validation.                       *)
(***************************************************************************)
C2_AlwaysSuccessAfterValidation ==
    \A s \in Slots :
       ValidatedForm(inv[s]) =>
          /\ inv[s].pc \in Awaiting \cup {"done"}
          /\ Responded(inv[s]) => inv[s].status = 200 /\ inv[s].body.success

\* Three POSTs, none of which succeeded, and still 200.
C2_Witness ==
    \E s \in Slots :
       /\ ValidatedForm(inv[s]) /\ Responded(inv[s])
       /\ Len(inv[s].posts) = 3
       /\ inv[s].posts[1].st = "error"
       /\ inv[s].posts[2].status = 500
       /\ inv[s].posts[3].st = "error"
       /\ inv[s].status = 200

(***************************************************************************)
(* C3.  As claimed: in all four handlers an error response is only ever    *)
(* sent before any notification attempt.                                   *)
(***************************************************************************)
C3_Original ==
    \A s \in Slots :
       (Responded(inv[s]) /\ inv[s].status >= 400) => inv[s].posts = <<>>

(***************************************************************************)
(* C3, amended.  In the contact and quote handlers an error response is    *)
(* only ever sent before any notification attempt.  In the order-webhook   *)
(* and quote-webhook handlers the one error response sent after a          *)
(* notification attempt is 502, sent exactly when the single forwarding    *)
(* POST ended in a non-2xx status or a transport failure.                  *)
(***************************************************************************)
C3_DownstreamErrorSurfacedOnlyByRelay ==
    \A s \in Slots :
       Responded(inv[s]) =>
          /\ (inv[s].status >= 400 /\ inv[s].posts # <<>>) =>
                /\ inv[s].handler \in WebhookHandlers
                /\ inv[s].status = 502
          /\ (inv[s].handler \in WebhookHandlers /\ inv[s].posts # <<>>) =>
                /\ Len(inv[s].posts) = 1
                /\ inv[s].status = 502 <=> PostFailed(inv[s].posts[1])
                /\ inv[s].status \in {200, 502}

\* A form handler whose chat-webhook POST failed in transport answers 200.
C3_Witness ==
    \E s \in Slots :
       /\ inv[s].handler \in FormHandlers /\ Responded(inv[s])
       /\ inv[s].posts # <<>>
       /\ inv[s].posts[1].st = "error"
       /\ inv[s].status = 200

(***************************************************************************)
(* C4.  Contact and quote handlers: the admin fallback POST is issued if   *)
(* and only if the primary attempt did not deliver and both ADMIN_EMAIL    *)
(* and SENDGRID_API_KEY are configured; it is never issued when the        *)
(* primary attempt delivered.                                              *)
(***************************************************************************)
C4_AdminFallbackIff ==
    \A s \in Slots :
       ValidatedForm(inv[s]) =>
          /\ AdminSent(inv[s]) =>
                /\ ~PrimaryDelivered(inv[s])
                /\ env["ADMIN_EMAIL"] /\ env["SENDGRID_API_KEY"]
                /\ Cardinality(PostsOf(inv[s], "admin")) = 1
          /\ Responded(inv[s]) =>
                (AdminSent(inv[s]) <=>
                    /\ ~PrimaryDelivered(inv[s])
                    /\ env["ADMIN_EMAIL"] /\ env["SENDGRID_API_KEY"])

\* The chat webhook answered 300 (no 2xx), the auto-reply was delivered, and
\* the admin fallback went out.
C4_Witness ==
    \E s \in Slots :
       /\ ValidatedForm(inv[s]) /\ Responded(inv[s])
       /\ PostsOf(inv[s], "primary") # {}
       /\ inv[s].posts[1].status = 300
       /\ SecondaryDelivered(inv[s])
       /\ AdminSent(inv[s])

(***************************************************************************)
(* C5.  Contact and quote handlers: the SUBMISSION_RECOVERY record is      *)
(* logged if and only if neither the primary nor the secondary attempt     *)
(* delivered (failed or skipped), at most once per request, and never      *)
(* when either delivered.                                                  *)
(***************************************************************************)
C5_RecoveryLogIff ==
    \A s \in Slots :
       ValidatedForm(inv[s]) =>
          /\ Cardinality(RecoveryLogs(inv[s])) <= 1
          /\ RecoveryLogs(inv[s]) # {} =>
                ~PrimaryDelivered(inv[s]) /\ ~SecondaryDelivered(inv[s])
          /\ Responded(inv[s]) =>
                (RecoveryLogs(inv[s]) # {} <=>
                    ~PrimaryDelivered(inv[s]) /\ ~SecondaryDelivered(inv[s]))

\* The chat webhook failed and the auto-reply was delivered with a 399: no
\* recovery record, although the admin fallback was sent.
C5_Witness ==
    \E s \in Slots :
       /\ ValidatedForm(inv[s]) /\ Responded(inv[s])
       /\ ~PrimaryDelivered(inv[s])
       /\ \E i \in PostsOf(inv[s], "autoreply") : inv[s].posts[i].status = 399
       /\ RecoveryLogs(inv[s]) = {}

(***************************************************************************)
(* C9.  All four handlers: a response of 405, 429, 413, 401 or 400 means   *)
(* that no outbound POST was issued (chat webhook, auto-reply or admin     *)
(* fallback) and no SUBMISSION_RECOVERY record was logged.                 *)
(***************************************************************************)
C9_ClientErrorHaltsBeforeNotification ==
    \A s \in Slots :
       (Responded(inv[s]) /\ inv[s].status \in ClientErrors) =>
          /\ inv[s].posts = <<>>
          /\ RecoveryLogs(inv[s]) = {}
          /\ ~inv[s].validated

\* The quote form without its timeline, every channel configured: 400 naming
\* the field, and nothing sent.
C9_Witness ==
    \E s \in Slots :
       /\ inv[s].handler = "quote" /\ Responded(inv[s])
       /\ inv[s].status = 400
       /\ inv[s].body.missing = <<"timeline">>
       /\ env["DISCORD_WEBHOOK_QUOTES"] /\ env["SENDGRID_API_KEY"]
       /\ inv[s].posts = <<>>


(***************************************************************************)
(* SpecLive: one invocation at a time with every channel configured, the   *)
(* event loop running every continuation that is ready and every           *)
(* downstream that answers doing so eventually.  A downstream may also     *)
(* never answer.                                                           *)
(***************************************************************************)
NextLive ==
    \/ \E h \in Handlers : \E req \in BriefRequests(h, OneSource) : Arrive(1, h, req)
    \/ \E o \in BriefOutcomes : Settle(1, o)
    \/ Unresponsive(1)
    \/ Recycle(1)

InitLive ==
    /\ InitWith(Handlers)
    /\ \A h \in loaded : \A v \in EnvOf(h) \ {"WEBHOOK_SECRET"} : env[v]

SpecLive ==
    /\ InitLive
    /\ [][NextLive]_vars
    /\ WF_vars(\E o \in BriefOutcomes : Settle(1, o))
    /\ WF_vars(Recycle(1))

(***************************************************************************)
(* C6.  Each call of isRateLimited returns true exactly when it is the     *)
(* 11th or a later call of its key in the current fixed window, and the    *)
(* entry's count is the position of the call in that window: 1 for the     *)
(* first call of a key and for the first call after the window elapsed.    *)
(***************************************************************************)
C6_FixedWindowCounter ==
    [][\A h \in Handlers : \A k \in Keys :
          hist'[h][k] # hist[h][k] =>
             /\ \E s \in Slots :
                   /\ inv[s].pc = "idle" /\ inv'[s].pc # "idle"
                   /\ inv'[s].key = k
                   /\ inv'[s].limited <=> hist'[h][k].calls > RATE_LIMIT_MAX
                   /\ inv'[s].status = 429 <=> hist'[h][k].calls > RATE_LIMIT_MAX
             /\ \A entry \in mapGet(rateLimitMap'[h], k) :
                   /\ entry.count = hist'[h][k].calls
                   /\ entry.windowStart = hist'[h][k].start]_vars

\* The 11th call of a key in its second window is answered 429.
C6_Witness ==
    \E h \in Handlers : \E k \in Keys : \E s \in Slots :
       /\ hist[h][k].windows = 2
       /\ hist[h][k].calls = RATE_LIMIT_MAX + 1
       /\ inv[s].key = k /\ inv[s].status = 429

(***************************************************************************)
(* C7.  In every state of a handler's rate-limit map each entry has        *)
(* count >= 1 and no key has two entries, and no step removes the entry    *)
(* of a key.                                                               *)
(***************************************************************************)
C7_MapInvariant ==
    /\ [](\A h \in Handlers :
             /\ \A entry \in rateLimitMap[h] : entry.count >= 1
             /\ \A a, b \in rateLimitMap[h] : a.ip = b.ip => a = b)
    /\ [][\A h \in Handlers : \A entry \in rateLimitMap[h] :
             mapGet(rateLimitMap'[h], entry.ip) # {}]_vars

\* Two keys in the map, one of them in its second window.
C7_Witness ==
    \E h \in Handlers : \E a, b \in rateLimitMap[h] :
       /\ a.ip # b.ip
       /\ hist[h][a.ip].windows = 2
       /\ a.count > 1 /\ b.count > RATE_LIMIT_MAX

(***************************************************************************)
(* C8.  With invocations interleaved at their await points, the count of   *)
(* a key is the number of calls of isRateLimited for it since the window   *)
(* was reset (no increment is lost), and at most 10 of them were admitted. *)
(***************************************************************************)
C8_AtomicCount ==
    \A h \in Handlers : \A k \in Keys :
       hist[h][k].open =>
          /\ \E entry \in rateLimitMap[h] :
                /\ mapGet(rateLimitMap[h], k) = {entry}
                /\ entry.count = hist[h][k].calls
          /\ hist[h][k].admitted <= RATE_LIMIT_MAX

\* While an admitted invocation of a key is still awaiting its POST, the 11th
\* call of the window arrives for the same key and is answered 429.
C8_Witness ==
    \E h \in Handlers : \E k \in Keys : \E a, b \in Slots :
       /\ inv[a].pc \in Awaiting /\ inv[a].key = k
       /\ inv[b].status = 429 /\ inv[b].key = k
       /\ hist[h][k].admitted = RATE_LIMIT_MAX
       /\ hist[h][k].calls = RATE_LIMIT_MAX + 1

(***************************************************************************)
(* C10.  Every invocation that awaits an outbound POST eventually sends    *)
(* its response.                                                           *)
(***************************************************************************)
C10_EventuallyResponds ==
    \A s \in Slots : (inv[s].pc \in Awaiting) ~> (inv[s].pc = "done")


(***************************************************************************)
(* SpecPair: two invocations of one handler module, side by side, so that  *)
(* what one request is answered can be compared with what another is.      *)
(* The second arrives after the first, before or after the first has       *)
(* responded.                                                              *)
(***************************************************************************)
PairRequests(h) ==
    LET valid == BodyValue(120, 1, Obj(ValidPayload(h)))
        other == BodyString(TRUE, 4, 4, NonObj("null"))
    IN  UNION {{Request("POST", src, sig, b) :
                  src \in OneSource,
                  sig \in IF h \in WebhookHandlers THEN Signatures(b)
                          ELSE {NoSignature}} : b \in {valid, other}}

InitPair == InitWith(Handlers)

NextPair ==
    \/ \E h \in Handlers : \E req \in PairRequests(h) : Arrive(1, h, req)
    \/ \E h \in Handlers : \E req \in PairRequests(h) :
          /\ inv[1].pc # "idle"
          /\ Arrive(2, h, req)
    \/ \E s \in {1, 2} : \E o \in BriefOutcomes \cup {TransportError} : Settle(s, o)

SpecPair == InitPair /\ [][NextPair]_vars

\* the signature header of the request is absent (or empty)
SignatureMissing(req) == ~req.signature.present \/ req.signature.hex = <<>>

\* invocation s was answered 401 by a webhook handler
Unauthorized(s) ==
    /\ inv[s].handler \in WebhookHandlers
    /\ Responded(inv[s]) /\ inv[s].status = 401

ReachedSignatureCheck(rec) ==
    /\ rec.handler \in WebhookHandlers
    /\ env["WEBHOOK_SECRET"]
    /\ rec.pc \notin {"idle", "threw"}
    /\ rec.req.method = "POST"
    /\ ~rec.limited
    /\ rec.req.body.bytes <= MAX_BODY_BYTES

\* the hex digits of text, two by two, spell the bytes, and what follows
\* them in text does not begin with two more hex digits
DecodesTo(text, bytes) ==
    /\ Len(text) >= 2 * Len(bytes)
    /\ \A i \in 1..Len(bytes) :
          /\ hexValue(text[2 * i - 1]) >= 0
          /\ hexValue(text[2 * i]) >= 0
          /\ 16 * hexValue(text[2 * i - 1]) + hexValue(text[2 * i]) = bytes[i]
    /\ \/ Len(text) < 2 * Len(bytes) + 2
       \/ hexValue(text[2 * Len(bytes) + 1]) < 0
       \/ hexValue(text[2 * Len(bytes) + 2]) < 0

\* the response was decided at the signature check: nothing of the body was
\* parsed or validated and nothing was sent
RejectedUnparsed(rec) ==
    /\ Responded(rec) /\ rec.status = 401
    /\ ~rec.validated
    /\ rec.body.missing = <<>>
    /\ rec.posts = <<>>

(***************************************************************************)
(* C12.  As claimed: a signed webhook request that is not answered 401     *)
(* carries, as its X-Webhook-Signature, the hex-encoded HMAC of the body   *)
(* as it was transmitted.                                                  *)
(***************************************************************************)
C12_Original ==
    \A s \in Slots :
       (ReachedSignatureCheck(inv[s]) /\ ~RejectedUnparsed(inv[s])) =>
          /\ inv[s].req.signature.present
          /\ inv[s].req.signature.hex =
                hexEncode(hmacDigest(inv[s].req.body.wire))

(***************************************************************************)
(* C12, amended.  With a secret configured, a webhook request proceeds     *)
(* past the signature check exactly when the header is present and its     *)
(* value decodes, as Buffer.from(value, "hex") decodes it (digits of       *)
(* either case, read two by two up to the first pair that is not hex), to  *)
(* the bytes of the HMAC of rawBody, which is req.body when that is a      *)
(* string and JSON.stringify(req.body) otherwise.  Every other request is  *)
(* answered 401 with nothing parsed, validated or sent.                    *)
(***************************************************************************)
C12_ProceedsOnlyOnMatchingDigest ==
    \A s \in Slots :
       ReachedSignatureCheck(inv[s]) =>
          IF /\ inv[s].req.signature.present
             /\ DecodesTo(inv[s].req.signature.hex,
                          hmacDigest(inv[s].req.body.tag))
          THEN ~(Responded(inv[s]) /\ inv[s].status = 401)
          ELSE RejectedUnparsed(inv[s])

\* The digest in capitals is accepted, and the submission forwarded.
C12_Witness ==
    \E s \in Slots :
       /\ ReachedSignatureCheck(inv[s])
       /\ inv[s].req.signature.hex #
             hexEncode(hmacDigest(inv[s].req.body.tag))
       /\ inv[s].req.signature.hex =
             ToUpperCase(hexEncode(hmacDigest(inv[s].req.body.tag)))
       /\ inv[s].posts # <<>>
       /\ inv[s].status = 200

\* two requests that differ at most in their X-Webhook-Signature header
SameButSignature(a, b) == [a EXCEPT !.signature = b.signature] = b

(***************************************************************************)
(* C13.  Webhook handlers without a configured secret: two requests that   *)
(* differ only in their X-Webhook-Signature header (absent, or any value)  *)
(* have the same outcome: both issue the forwarding POST or neither does,  *)
(* and they are answered the same status, given the same outcome of the    *)
(* POST; none is answered 401.                                             *)
(***************************************************************************)
C13_UnsignedModeIgnoresSignature ==
    (/\ ~env["WEBHOOK_SECRET"]
     /\ inv[1].handler \in WebhookHandlers
     /\ inv[2].handler \in WebhookHandlers
     /\ SameButSignature(inv[1].req, inv[2].req)) =>
        /\ inv[1].status # 401 /\ inv[2].status # 401
        /\ inv[1].posts = <<>> <=> inv[2].posts = <<>>
        /\ inv[1].posts = inv[2].posts =>
              /\ inv[1].pc = inv[2].pc
              /\ inv[1].status = inv[2].status
              /\ inv[1].body = inv[2].body

\* One request without the header and one with the digest of another body:
\* both are forwarded and answered 200.
C13_Witness ==
    /\ ~env["WEBHOOK_SECRET"]
    /\ inv[1].handler \in WebhookHandlers
    /\ inv[2].handler \in WebhookHandlers
    /\ SameButSignature(inv[1].req, inv[2].req)
    /\ ~inv[1].req.signature.present
    /\ inv[2].req.signature.hex = hexEncode(hmacDigest(inv[2].req.body.tag + 1))
    /\ inv[1].status = 200 /\ inv[2].status = 200
    /\ Len(inv[1].posts) = 1 /\ Len(inv[2].posts) = 1

(***************************************************************************)
(* C14.  Webhook handlers without a configured chat-webhook destination    *)
(* (DISCORD_WEBHOOK_URL_ORDER): no outbound POST is ever issued, and a     *)
(* request that passed the guards and the validation is answered 503, in   *)
(* the segment it arrived in.                                              *)
(***************************************************************************)
C14_NoDestinationNoForward ==
    \A s \in Slots :
       (inv[s].handler \in WebhookHandlers /\ ~env["DISCORD_WEBHOOK_URL_ORDER"]) =>
          /\ inv[s].posts = <<>>
          /\ inv[s].pc \notin Awaiting
          /\ inv[s].validated =>
                /\ Responded(inv[s])
                /\ inv[s].status = 503
                /\ inv[s].body = ErrorBody("Webhook destination not configured")

\* A correctly signed, valid order with the secret configured and no
\* destination: 503, nothing sent.
C14_Witness ==
    \E s \in Slots :
       /\ inv[s].handler = "order"
       /\ ~env["DISCORD_WEBHOOK_URL_ORDER"] /\ env["WEBHOOK_SECRET"]
       /\ inv[s].validated
       /\ inv[s].status = 503
       /\ inv[s].posts = <<>>

\* the request of invocation s has been taken up by its handler
Arrived(rec) == rec.pc # "idle"

\* the body is absent, null, not an object, or text that is not JSON
BodyNotJsonObject(b) ==
    \/ b.kind = "undefined"
    \/ b.kind = "string" /\ ~b.parses
    \/ b.data.t # "object"

(***************************************************************************)
(* C15.  In every handler a request that is not a POST is answered 405; a  *)
(* POST that is not rate-limited and whose body exceeds 50,000 bytes is    *)
(* answered 413, a body of exactly 50,000 bytes is not; and a POST within  *)
(* the size limit (not rate-limited, and not rejected for its signature)   *)
(* whose body is absent, null, not an object or not JSON is answered 400.  *)
(***************************************************************************)
C15_RequestGuards ==
    \A s \in Slots :
       Arrived(inv[s]) =>
          LET req == inv[s].req
              answered(code) == Responded(inv[s]) /\ inv[s].status = code
          IN  /\ req.method # "POST" => answered(405)
              /\ (req.method = "POST" /\ ~inv[s].limited) =>
                    /\ req.body.bytes > MAX_BODY_BYTES => answered(413)
                    /\ req.body.bytes = MAX_BODY_BYTES => ~answered(413)
                    /\ (/\ req.body.bytes <= MAX_BODY_BYTES
                        /\ BodyNotJsonObject(req.body)
                        /\ ~answered(401)) => answered(400)

\* the POSTs invocation rec issued to a channel
PostsTo(rec, to) == {i \in DOMAIN rec.posts : rec.posts[i].to = to}

(***************************************************************************)
(* C16.  As claimed: for any request and any outcomes, at most one POST is *)
(* issued to the chat-webhook channel and at most one to the email         *)
(* channel.                                                                *)
(***************************************************************************)
C16_Original ==
    \A s \in Slots :
       /\ Cardinality(PostsTo(inv[s], "discord")) <= 1
       /\ Cardinality(PostsTo(inv[s], "sendgrid")) <= 1

(***************************************************************************)
(* C16, amended.  No attempt is repeated: per request at most one POST is  *)
(* issued to the chat-webhook channel, at most one auto-reply POST and at  *)
(* most one admin fallback POST.  The email channel therefore receives up  *)
(* to two POSTs per request, the auto-reply and then the admin fallback,   *)
(* never two of a kind.                                                    *)
(***************************************************************************)
C16_OneAttemptPerStep ==
    \A s \in Slots :
       /\ Cardinality(PostsTo(inv[s], "discord")) <= 1
       /\ \A kind \in {"primary", "forward", "autoreply", "admin"} :
             Cardinality(PostsOf(inv[s], kind)) <= 1
       /\ \A i \in PostsTo(inv[s], "sendgrid") :
             inv[s].posts[i].kind \in {"autoreply", "admin"}
       /\ \A i \in PostsTo(inv[s], "discord") :
             inv[s].posts[i].kind \in {"primary", "forward"}
       /\ \A i, j \in PostsTo(inv[s], "sendgrid") :
             i < j => inv[s].posts[i].kind = "autoreply"
                      /\ inv[s].posts[j].kind = "admin"

\* The chat webhook and the auto-reply both failed: one POST to the chat
\* webhook, two to the email provider (auto-reply, admin fallback), no more.
C16_Witness ==
    \E s \in Slots :
       /\ Responded(inv[s])
       /\ Len(inv[s].posts) = 3
       /\ inv[s].posts[1].kind = "primary" /\ inv[s].posts[1].status = 500
       /\ inv[s].posts[2].kind = "autoreply" /\ inv[s].posts[2].st = "error"
       /\ inv[s].posts[3].kind = "admin"
       /\ Cardinality(PostsTo(inv[s], "sendgrid")) = 2


(***************************************************************************)
(* SpecSanitize: the sanitizers of the contact and quote handlers applied  *)
(* to a field of the payload: every short string over the characters that  *)
(* matter, strings as long as the limit (give or take one), and values     *)
(* that are not strings.  Nothing is configured, so the handler answers in *)
(* the segment the request arrives in, sanitizedData in its locals.        *)
(***************************************************************************)
SanitizeAlphabet == {"a", "&", "<", ">", "\"", "'", " ", ";"}

Repeat(c, n) == [i \in 1..n |-> c]

SanitizeInputs ==
    {Str(chars) : chars \in UNION {[1..n -> SanitizeAlphabet] : n \in 0..MaxInputLen}}
    \cup {Str(Repeat(c, n)) : c \in {"a", "&", "\"", " "}, n \in {999, 1000, 1001}}
    \cup {Str(<<" ", " ">> \o Repeat("a", 999) \o <<"<", ">">>),
          Str(Repeat("a", 999) \o <<"&", "&">>),
          Str(Repeat("<", 500) \o Repeat("'", 501) \o <<" ">>)}
    \cup {Undefined, Null, Num(0), Num(7), Num(1000), Bool(TRUE), Bool(FALSE)}

\* the field of the payload whose sanitized value is looked at
SanitizedField(h) == IF h = "contact" THEN "name" ELSE "firstName"

SanitizeRequests(h) ==
    {Request("POST", src, NoSignature,
             BodyValue(120 + Len(v.s), 12,
                       Obj([ValidPayload(h) EXCEPT ![SanitizedField(h)] = v]))) :
        src \in OneSource, v \in SanitizeInputs}

InitSanitize ==
    /\ InitWith(FormHandlers)
    /\ \A v \in EnvVars : ~env[v]

NextSanitize ==
    \E h \in FormHandlers : \E req \in SanitizeRequests(h) : Arrive(1, h, req)

SpecSanitize == InitSanitize /\ [][NextSanitize]_vars

\* the value given to the sanitizer in invocation rec, and what it returned
SanitizerInput(rec) == Field(rec.req.body.data, SanitizedField(rec.handler))
SanitizerOutput(rec) == rec.sanitized[SanitizedField(rec.handler)]

Sanitized(rec) ==
    /\ rec.handler \in FormHandlers
    /\ SanitizedField(rec.handler) \in DOMAIN rec.sanitized

Entities ==
    {<<"&", "a", "m", "p", ";">>, <<"&", "l", "t", ";">>, <<"&", "g", "t", ";">>,
     <<"&", "q", "u", "o", "t", ";">>, <<"&", "#", "3", "9", ";">>}

\* an entity is written in out from index i on
EntityAt(out, i) ==
    \E ent \in Entities :
       /\ i + Len(ent) - 1 <= Len(out)
       /\ SubSeq(out, i, i + Len(ent) - 1) = ent

\* index j of out lies inside an entity, after its first character
InsideEntity(out, j) ==
    \E i \in (j - 5)..(j - 1) :
       /\ i >= 1
       /\ \E ent \in Entities :
             /\ j <= i + Len(ent) - 1
             /\ i + Len(ent) - 1 <= Len(out)
             /\ SubSeq(out, i, i + Len(ent) - 1) = ent

\* the number of characters out stands for, an entity standing for one
UnescapedLen(out) == Cardinality({j \in 1..Len(out) : ~InsideEntity(out, j)})

RequiredOf(h) ==
    IF h = "order" THEN ORDER_REQUIRED_FIELDS ELSE QUOTE_REQUIRED_FIELDS

\* the required fields that are absent from the payload, null or ""
AbsentNullOrEmpty(h, data) ==
    {RequiredOf(h)[i] : i \in
        {j \in DOMAIN RequiredOf(h) :
            \/ RequiredOf(h)[j] \notin DOMAIN data.f
            \/ data.f[RequiredOf(h)[j]] = Null
            \/ data.f[RequiredOf(h)[j]] = Str(<<>>)}}

\* the invocation got as far as looking at the fields of a JSON object
ReachedFieldCheck(rec) ==
    /\ rec.handler \in {"quote", "order", "quoteWebhook"}
    /\ rec.pc \notin {"idle", "threw"}
    /\ rec.req.method = "POST"
    /\ ~rec.limited
    /\ rec.req.body.bytes <= MAX_BODY_BYTES
    /\ rec.status # 401
    /\ rec.req.body.kind = "string" => rec.req.body.parses
    /\ rec.req.body.data.t = "object"

Resubmitted ==
    /\ Arrived(inv[1]) /\ Arrived(inv[2])
    /\ inv[1].req = inv[2].req
    /\ inv[1].limited = inv[2].limited

(***************************************************************************)
(* C19.  A request submitted twice runs two notification cycles of its     *)
(* own: the second invocation issues the same POSTs as the first as long   *)
(* as their outcomes are the same, and with the same outcomes it takes the *)
(* same steps, writes the same lines and sends the same response.  Only    *)
(* the count of the rate-limit entry passes from one to the other.         *)
(***************************************************************************)
C19_ResubmissionIndependent ==
    Resubmitted =>
       /\ inv[1].posts = <<>> <=> inv[2].posts = <<>>
       /\ \A i \in DOMAIN inv[1].posts \cap DOMAIN inv[2].posts :
             (\A j \in 1..(i - 1) : inv[1].posts[j] = inv[2].posts[j]) =>
                /\ inv[1].posts[i].to = inv[2].posts[i].to
                /\ inv[1].posts[i].kind = inv[2].posts[i].kind
       /\ inv[1].posts = inv[2].posts => inv[1] = inv[2]

\* The valid contact submission sent twice, the chat webhook and the email
\* provider answering 200 both times: two chat messages, two auto-replies,
\* two 200 responses, and a count of 2 in the rate-limit entry.
C19_Witness ==
    /\ Resubmitted
    /\ inv[1].handler = "contact"
    /\ inv[1].validated /\ inv[2].validated
    /\ \A s \in {1, 2} :
          /\ Responded(inv[s]) /\ inv[s].status = 200
          /\ Len(inv[s].posts) = 2
          /\ PrimaryDelivered(inv[s]) /\ SecondaryDelivered(inv[s])
    /\ \E entry \in rateLimitMap["contact"] : entry.count = 2


(***************************************************************************)
(* C20.  As claimed: in all four handlers a 200 response carries           *)
(* success = true and a message, and a 4xx or 5xx response carries an      *)
(* error.                                                                  *)
(***************************************************************************)
C20_Original ==
    \A s \in Slots :
       Responded(inv[s]) =>
          /\ inv[s].status = 200 =>
                inv[s].body.success /\ inv[s].body.message # Absent
          /\ inv[s].status >= 400 => inv[s].body.error # Absent

(***************************************************************************)
(* C20, amended.  In all four handlers a 200 response carries              *)
(* success = true and no error, and a 4xx or 5xx response carries an error *)
(* and neither success nor message; every response is one or the other.    *)
(* A 200 of the contact and quote handlers also carries a message; a 200   *)
(* of the order-webhook and quote-webhook handlers carries none.           *)
(***************************************************************************)
C20_ResponseShapes ==
    \A s \in Slots :
       Responded(inv[s]) =>
          /\ inv[s].status = 200 \/ inv[s].status \in 400..599
          /\ inv[s].status = 200 =>
                /\ inv[s].body.success
                /\ inv[s].body.error = Absent
                /\ inv[s].body.message # Absent <=> inv[s].handler \in FormHandlers
          /\ inv[s].status >= 400 =>
                /\ inv[s].body.error # Absent
                /\ ~inv[s].body.success
                /\ inv[s].body.message = Absent

\* An order forwarded to the chat webhook: 200 with success and no message.
C20_Witness ==
    \E s \in Slots :
       /\ inv[s].handler = "order"
       /\ Responded(inv[s]) /\ inv[s].status = 200
       /\ inv[s].posts # <<>>
       /\ inv[s].body.success
       /\ inv[s].body.message = Absent


\* the POST has been written and its promise has not settled
InFlight(p) == p.st \in {"pending", "unresponsive"}

\* the place of a step in the ladder
StepRank(kind) ==
    CASE kind = "primary" -> 1 [] kind = "autoreply" -> 2
      [] kind = "admin" -> 3 [] OTHER -> 0

\* posts a is the beginning of posts b, outcomes aside
SameStepsSoFar(a, b) ==
    /\ Len(a) <= Len(b)
    /\ \A i \in DOMAIN a : a[i].kind = b[i].kind /\ a[i].to = b[i].to

(***************************************************************************)
(* C21.  Contact and quote handlers: the POSTs of one request are issued   *)
(* in the order primary, auto-reply, admin fallback, each only once the    *)
(* one before has settled, so that at most one, the last, is in flight;    *)
(* the recovery record is logged after all of them, and the response is    *)
(* sent last: once it is sent nothing is in flight and nothing follows.    *)
(***************************************************************************)
C21_LadderInOrder ==
    /\ [](\A s \in Slots :
             inv[s].handler \in FormHandlers =>
                LET posts == inv[s].posts
                IN  /\ \A i, j \in DOMAIN posts :
                          i < j => StepRank(posts[i].kind) < StepRank(posts[j].kind)
                    /\ \A i \in DOMAIN posts : StepRank(posts[i].kind) > 0
                    /\ \A i \in 1..(Len(posts) - 1) : ~InFlight(posts[i])
                    /\ inv[s].pc \in Awaiting <=>
                          (posts # <<>> /\ InFlight(posts[Len(posts)]))
                    /\ Responded(inv[s]) =>
                          \A i \in DOMAIN posts : ~InFlight(posts[i])
                    /\ RecoveryLogs(inv[s]) # {} =>
                          /\ Responded(inv[s])
                          /\ inv[s].logs[Len(inv[s].logs)] = "SUBMISSION_RECOVERY")
    /\ [][\A s \in Slots :
             (inv[s].handler \in FormHandlers /\ inv'[s].pc # "idle") =>
                /\ SameStepsSoFar(inv[s].posts, inv'[s].posts)
                /\ Len(inv'[s].posts) <= Len(inv[s].posts) + 1
                /\ Responded(inv[s]) => inv'[s] = inv[s]]_vars

\* All three POSTs failed one after the other, the recovery record was
\* logged after the last, and the response was sent.
C21_Witness ==
    \E s \in Slots :
       /\ inv[s].handler \in FormHandlers /\ Responded(inv[s])
       /\ Len(inv[s].posts) = 3
       /\ \A i \in 1..3 : inv[s].posts[i].st = "error"
       /\ Len(inv[s].logs) = 4
       /\ inv[s].logs[4] = "SUBMISSION_RECOVERY"


\* a validated submission of a form handler, answered, that the chat webhook
\* did not take (the POST failed, or none was issued)
AnsweredUndelivered(rec) ==
    ValidatedForm(rec) /\ Responded(rec) /\ ~PrimaryDelivered(rec)

(***************************************************************************)
(* C22.  As claimed: a validated submission that was not delivered on the  *)
(* chat-webhook channel has, by the time the response is sent, been sent   *)
(* to the admin or written to the log as a SUBMISSION_RECOVERY record.     *)
(***************************************************************************)
C22_Original ==
    \A s \in Slots :
       AnsweredUndelivered(inv[s]) =>
          AdminSent(inv[s]) \/ RecoveryLogs(inv[s]) # {}

(***************************************************************************)
(* C22, amended.  A validated submission that was not delivered on the     *)
(* chat-webhook channel has, by the time the response is sent, been sent   *)
(* to the admin or written to the log as a SUBMISSION_RECOVERY record,     *)
(* except when the auto-reply was delivered and no admin address is        *)
(* configured: then the operator is reached by neither.                    *)
(***************************************************************************)
C22_OperatorReachedUnlessAutoReplied ==
    \A s \in Slots :
       AnsweredUndelivered(inv[s]) =>
          (~AdminSent(inv[s]) /\ RecoveryLogs(inv[s]) = {}) <=>
             (SecondaryDelivered(inv[s]) /\ ~env["ADMIN_EMAIL"])

\* The chat webhook answered 500 and the auto-reply was delivered, with no
\* admin address configured: 200, no admin mail and no recovery record.
C22_Witness ==
    \E s \in Slots :
       /\ AnsweredUndelivered(inv[s])
       /\ Len(inv[s].posts) = 2
       /\ inv[s].posts[1].kind = "primary" /\ inv[s].posts[1].status = 500
       /\ SecondaryDelivered(inv[s])
       /\ ~env["ADMIN_EMAIL"]
       /\ ~AdminSent(inv[s]) /\ RecoveryLogs(inv[s]) = {}
       /\ inv[s].status = 200


\* the primary step of a validated submission is over: its POST settled, or
\* none was issued
PrimaryStepOver(rec) == ValidatedForm(rec) /\ rec.pc # "awaitDiscord"

(***************************************************************************)
(* C23.  Contact and quote handlers: once the primary step is over, the    *)
(* auto-reply POST has been issued if and only if SENDGRID_API_KEY is      *)
(* configured, whether the primary POST delivered, was answered another    *)
(* status, failed in transport or was never issued; it is not issued       *)
(* before.                                                                 *)
(***************************************************************************)
C23_AutoReplyIffCredential ==
    \A s \in Slots :
       ValidatedForm(inv[s]) =>
          /\ PrimaryStepOver(inv[s]) =>
                (PostsOf(inv[s], "autoreply") # {} <=> env["SENDGRID_API_KEY"])
          /\ ~PrimaryStepOver(inv[s]) => PostsOf(inv[s], "autoreply") = {}

\* The chat webhook delivered, and the auto-reply was issued all the same.
C23_Witness ==
    \E s \in Slots :
       /\ PrimaryStepOver(inv[s])
       /\ PrimaryDelivered(inv[s])
       /\ env["SENDGRID_API_KEY"]
       /\ PostsOf(inv[s], "autoreply") = {2}


\* a chat-webhook URL is configured for the form of handler h
DestinationConfigured(h) ==
    IF h = "contact" THEN env["DISCORD_WEBHOOK_CONTACT"]
    ELSE env["DISCORD_WEBHOOK_QUOTES"] \/ env["DISCORD_WEBHOOK_URL_ORDER"]

\* the POST of a step of invocation rec has settled as anything but a
\* response with a status in the given set
StepFailed(rec, kind, good) ==
    \E i \in PostsOf(rec, kind) :
       \/ rec.posts[i].st = "error"
       \/ rec.posts[i].st = "response" /\ rec.posts[i].status \notin good

\* the handler went on after a failure: it is at a later await or has
\* answered 200
WentOn(rec, await) ==
    /\ rec.pc \in (Awaiting \ {await}) \cup {"done"}
    /\ Responded(rec) => rec.status = 200

(***************************************************************************)
(* C24.  Contact and quote handlers: the primary POST is issued if and     *)
(* only if a chat-webhook URL is configured for the form; discordOk is     *)
(* true exactly when that POST was issued and answered a status in         *)
(* [200,300); after any other status or a transport error discordOk is    *)
(* false and the handler goes on with the auto-reply step.                 *)
(***************************************************************************)
C24_PrimaryClassification ==
    \A s \in Slots :
       ValidatedForm(inv[s]) =>
          /\ PostsOf(inv[s], "primary") # {} <=> DestinationConfigured(inv[s].handler)
          /\ inv[s].discordOk <=>
                \E i \in PostsOf(inv[s], "primary") :
                   /\ inv[s].posts[i].st = "response"
                   /\ inv[s].posts[i].status >= 200
                   /\ inv[s].posts[i].status < 300
          /\ StepFailed(inv[s], "primary", 200..299) =>
                /\ WentOn(inv[s], "awaitDiscord")
                /\ env["SENDGRID_API_KEY"] => PostsOf(inv[s], "autoreply") # {}

\* The chat webhook answered 300: not delivered, and the auto-reply follows.
C24_Witness ==
    \E s \in Slots :
       /\ ValidatedForm(inv[s])
       /\ Len(inv[s].posts) = 2
       /\ inv[s].posts[1].kind = "primary" /\ inv[s].posts[1].status = 300
       /\ ~inv[s].discordOk
       /\ inv[s].pc = "awaitSendgrid"

(***************************************************************************)
(* C25.  Contact and quote handlers: sendgridOk is true exactly when the   *)
(* auto-reply POST was issued and answered a status below 400; after a     *)
(* status of 400 or more or a transport error sendgridOk is false and the  *)
(* handler goes on (admin fallback, recovery log, 200).                    *)
(***************************************************************************)
C25_SecondaryClassification ==
    \A s \in Slots :
       ValidatedForm(inv[s]) =>
          /\ inv[s].sendgridOk <=>
                \E i \in PostsOf(inv[s], "autoreply") :
                   /\ inv[s].posts[i].st = "response"
                   /\ inv[s].posts[i].status < 400
          /\ StepFailed(inv[s], "autoreply", 0..399) =>
                WentOn(inv[s], "awaitSendgrid")

\* The email provider answered 300 to the auto-reply (no 2xx, yet below
\* 400): delivered.
C25_Witness ==
    \E s \in Slots :
       /\ ValidatedForm(inv[s]) /\ Responded(inv[s])
       /\ \E i \in PostsOf(inv[s], "autoreply") : inv[s].posts[i].status = 300
       /\ inv[s].sendgridOk
       /\ inv[s].discordOk


(***************************************************************************)
(* C26.  Contact and quote handlers: when the admin fallback POST settles, *)
(* with any status or a transport error, the handler issues no further     *)
(* POST and answers 200 with the same body; the recovery record is logged  *)
(* in that step exactly when neither discordOk nor sendgridOk was true     *)
(* before it, whatever the outcome of the admin POST was.                  *)
(***************************************************************************)
C26_AdminFallbackFireAndForget ==
    [][\A s \in Slots :
          (/\ inv[s].pc = "awaitAdmin"
           /\ inv'[s] # inv[s]
           /\ ~InFlight(inv'[s].posts[Len(inv'[s].posts)])) =>
              /\ Len(inv'[s].posts) = Len(inv[s].posts)
              /\ Responded(inv'[s])
              /\ inv'[s].status = 200
              /\ inv'[s].body = SuccessBody(successMessage(inv[s].handler))
              /\ inv'[s].discordOk = inv[s].discordOk
              /\ inv'[s].sendgridOk = inv[s].sendgridOk
              /\ RecoveryLogs(inv'[s]) # {} <=>
                    (~inv[s].discordOk /\ ~inv[s].sendgridOk)]_vars

\* The admin fallback failed in transport after a delivered auto-reply: 200,
\* no recovery record, no fourth POST.
C26_Witness ==
    \E s \in Slots :
       /\ ValidatedForm(inv[s]) /\ Responded(inv[s])
       /\ Len(inv[s].posts) = 3
       /\ inv[s].posts[3].kind = "admin" /\ inv[s].posts[3].st = "error"
       /\ inv[s].sendgridOk
       /\ RecoveryLogs(inv[s]) = {}
       /\ inv[s].status = 200


\* isRateLimited was called for key k of handler h in this step
Called(h, k) == hist'[h][k] # hist[h][k]

\* what the invocation that made the call was told
ToldLimited(k, limited) ==
    \E s \in Slots :
       /\ inv[s].pc = "idle" /\ inv'[s].pc # "idle"
       /\ inv'[s].key = k
       /\ inv'[s].limited = limited

(***************************************************************************)
(* C27.  A call of isRateLimited resets the entry of its key exactly when  *)
(* there is none or now - windowStart > 60000: the entry becomes           *)
(* {windowStart: now, count: 1} and the call returns false.  Otherwise,    *)
(* and so at now = windowStart + 60000, the windowStart stays, the count   *)
(* goes up by one and the call returns count > 10.                         *)
(***************************************************************************)
C27_ResetStrictlyAfterWindow ==
    [][\A h \in Handlers : \A k \in Keys :
          Called(h, k) =>
             LET old == mapGet(rateLimitMap[h], k)
                 new == mapGet(rateLimitMap'[h], k)
             IN  IF old = {} \/ \E e \in old : now - e.windowStart > 60000
                 THEN /\ new = {[ip |-> k, windowStart |-> now, count |-> 1]}
                      /\ ToldLimited(k, FALSE)
                 ELSE \E e \in old :
                        /\ new = {[ip |-> k, windowStart |-> e.windowStart,
                                    count |-> e.count + 1]}
                        /\ ToldLimited(k, e.count + 1 > 10)]_vars

\* The 11th call of a key arrives exactly 60,000 ms after the first: it is
\* counted in the window of the first and answered 429.
C27_Witness ==
    \E h \in Handlers : \E entry \in rateLimitMap[h] : \E s \in Slots :
       /\ entry.windowStart = 0
       /\ entry.count = 11
       /\ hist[h][entry.ip].last = 60000
       /\ now = 60000
       /\ inv[s].key = entry.ip /\ inv[s].status = 429


(***************************************************************************)
(* SpecModules: the contact and the quote handler modules side by side,    *)
(* each with the rateLimitMap it declares, under requests from one source. *)
(* Nothing is configured, so every invocation answers in the segment it    *)
(* arrives in.                                                             *)
(***************************************************************************)
InitModules ==
    /\ now = 0
    /\ loaded = FormHandlers
    /\ env = [v \in EnvVars |-> FALSE]
    /\ rateLimitMap = [h \in Handlers |-> {}]
    /\ inv = [s \in Slots |-> Idle]
    /\ hist = [h \in Handlers |-> [k \in Keys |-> NoWindow]]

NextModules ==
    \/ \E h \in FormHandlers : \E req \in BriefRequests(h, OneSource) :
          Arrive(1, h, req)
    \/ Recycle(1)

SpecModules == InitModules /\ [][NextModules]_vars

\* the requests of key k admitted in the current window by handler h
AdmittedBy(h, k) == hist[h][k].admitted

(***************************************************************************)
(* C28.  As claimed: the requests of one source count toward one window    *)
(* count whichever handler receives them, so that the handlers together    *)
(* admit at most 10 of them per window.                                    *)
(***************************************************************************)
C28_Original ==
    \A k \in Keys : AdmittedBy("contact", k) + AdmittedBy("quote", k) <= RATE_LIMIT_MAX

(***************************************************************************)
(* C28, amended.  Each handler module keeps a rateLimitMap of its own,     *)
(* keyed by source address: a request counts only toward the entry of the  *)
(* handler that receives it and leaves the maps of the other handlers as   *)
(* they are, so that a source is limited after 10 admitted requests per    *)
(* window and per handler.                                                 *)
(***************************************************************************)
C28_OneMapPerHandler ==
    /\ [](\A h \in Handlers : \A k \in Keys :
             /\ AdmittedBy(h, k) <= RATE_LIMIT_MAX
             /\ \A entry \in mapGet(rateLimitMap[h], k) :
                   entry.count = hist[h][k].calls)
    /\ [][\A h \in Handlers : \A k \in Keys :
             Called(h, k) =>
                \A g \in Handlers \ {h} : rateLimitMap'[g] = rateLimitMap[g]]_vars

\* One source has been admitted 10 times by the contact handler and 10 times
\* by the quote handler in the same window, and is now answered 429 by one.
C28_Witness ==
    \E k \in Keys :
       /\ AdmittedBy("contact", k) = RATE_LIMIT_MAX
       /\ AdmittedBy("quote", k) = RATE_LIMIT_MAX
       /\ inv[1].key = k /\ inv[1].status = 429


\* the guards of a handler in the order the claim gives them, and the status
\* each one answers with
GuardStatus(guard) ==
    CASE guard = "method" -> 405
      [] guard = "rate limit" -> 429
      [] guard = "body size" -> 413
      [] guard = "signature" -> 401
      [] guard = "body parse" -> 400
      [] guard = "field validation" -> 400
      [] guard = "destination" -> 503
      [] OTHER -> 0

\* the fields of the body pass the checks of the handler
FieldsValid(h, req) ==
    handler(h, [Idle EXCEPT !.handler = h, !.req = req], req, FALSE, env).validated

\* the first guard, in the claimed order, that the request of invocation rec
\* fails ("none" when it passes them all)
FirstFailingGuard(rec) ==
    LET req == rec.req
        h == rec.handler
    IN  IF req.method # "POST" THEN "method"
        ELSE IF rec.limited THEN "rate limit"
        ELSE IF req.body.bytes > MAX_BODY_BYTES THEN "body size"
        ELSE IF h \in WebhookHandlers /\ signatureRejected(req, env)
        THEN "signature"
        ELSE IF \/ req.body.kind = "string" /\ ~req.body.parses
                \/ req.body.data.t \notin {"object", "array"}
        THEN "body parse"
        ELSE IF ~FieldsValid(h, req) THEN "field validation"
        ELSE IF h \in WebhookHandlers /\ ~env["DISCORD_WEBHOOK_URL_ORDER"]
        THEN "destination"
        ELSE "none"

ParseErrors == {"Invalid JSON body", "Request body must be a JSON object"}

ReachedForwarding(rec) ==
    /\ rec.handler \in WebhookHandlers
    /\ rec.validated
    /\ env["DISCORD_WEBHOOK_URL_ORDER"]

\* the handler wrote nothing to an email channel and logged no recovery line
NothingButForward(rec) ==
    /\ \A i \in DOMAIN rec.posts :
          rec.posts[i].to = "discord" /\ rec.posts[i].kind = "forward"
    /\ RecoveryLogs(rec) = {}

\* the forwarding POST of rec returned a status in [200,300)
ForwardAccepted(rec) ==
    \E i \in DOMAIN rec.posts :
       /\ rec.posts[i].st = "response"
       /\ rec.posts[i].status >= 200 /\ rec.posts[i].status < 300

(***************************************************************************)
(* C30.  As claimed: in the order-webhook and quote-webhook handlers a     *)
(* request that reaches the forwarding step issues exactly one POST to the *)
(* chat-webhook URL and nothing else, and the response is 200 if and only  *)
(* if that POST returned a status in [200,300), and 502 otherwise.         *)
(***************************************************************************)
C30_Original ==
    \A s \in Slots :
       ReachedForwarding(inv[s]) =>
          /\ Len(inv[s].posts) = 1
          /\ NothingButForward(inv[s])
          /\ Responded(inv[s]) =>
                /\ inv[s].status = 200 <=> ForwardAccepted(inv[s])
                /\ inv[s].status \in {200, 502}

(***************************************************************************)
(* C30, amended.  In the order-webhook and quote-webhook handlers a        *)
(* request that reaches the forwarding step issues at most one POST, to    *)
(* the chat-webhook URL, and nothing else (no email, no admin fallback, no *)
(* recovery log).  It issues none when building the embed throws, which a  *)
(* field that cannot be converted to a string causes, and the response is  *)
(* then 502; otherwise it issues exactly one, and the response is 200 if   *)
(* and only if that POST returned a status in [200,300), and 502 for any   *)
(* other status or a transport failure.                                    *)
(***************************************************************************)
C30_ForwardOnceUnlessEmbedThrows ==
    \A s \in Slots :
       ReachedForwarding(inv[s]) =>
          /\ NothingButForward(inv[s])
          /\ IF buildEmbedThrows(inv[s].handler, inv[s].req.body.data)
             THEN inv[s].posts = <<>> /\ Responded(inv[s]) /\ inv[s].status = 502
             ELSE /\ Len(inv[s].posts) = 1
                  /\ Responded(inv[s]) =>
                        /\ inv[s].status = 200 <=> ForwardAccepted(inv[s])
                        /\ inv[s].status \in {200, 502}
                        /\ inv[s].posts[1].st \in {"response", "error"}

\* The order webhook, its destination configured, has answered 502 to a
\* request with every required field present whose name is an object that
\* cannot be converted to a string, without issuing a POST.
C30_Witness ==
    \E s \in Slots :
       /\ ReachedForwarding(inv[s])
       /\ inv[s].handler = "order"
       /\ stringThrows(Field(inv[s].req.body.data, "name"))
       /\ inv[s].posts = <<>>
       /\ inv[s].status = 502


\* a request arrives at handler h in slot s in this step
Arriving(s, h) ==
    /\ inv[s].pc = "idle" /\ inv'[s].pc # "idle"
    /\ inv'[s].handler = h

\* the count the map of handler h holds for key k (0 when it holds none)
CountOf(m, k) ==
    IF mapGet(m, k) = {} THEN 0 ELSE (CHOOSE e \in mapGet(m, k) : TRUE).count

(***************************************************************************)
(* C31.  While the window of its source lasts, every POST request advances *)
(* the rate-limit count of the source by one at its arrival, whatever it   *)
(* is answered afterwards (429, 413, 401,                                  *)
(* 400, 503, 502, 200 or nothing at all), and changes no other entry; a    *)
(* request of another method, answered 405, leaves the rate-limit map as   *)
(* it is.  The responses sent afterwards leave the map as it is too, so    *)
(* the count of a source is the number of its POSTs.                       *)
(***************************************************************************)
C31_EveryPostCounted ==
    [][\A s \in Slots : \A h \in Handlers :
          /\ Arriving(s, h) =>
                LET req == inv'[s].req
                    k == sourceKey(req)
                IN  IF req.method = "POST"
                    THEN /\ CountOf(rateLimitMap'[h], k)
                              = CountOf(rateLimitMap[h], k) + 1
                         /\ \A j \in Keys \ {k} :
                               mapGet(rateLimitMap'[h], j) = mapGet(rateLimitMap[h], j)
                    ELSE /\ rateLimitMap' = rateLimitMap
                         /\ inv'[s].status = 405
          /\ (inv[s].pc # "idle" /\ inv'[s] # inv[s]) =>
                rateLimitMap' = rateLimitMap]_vars

\* A rejected POST has been counted: a source whose eleventh POST was
\* answered 429 sends an oversized body, is answered 429 again, and its count
\* stands at 12.
C31_Witness ==
    \E s \in Slots : \E h \in Handlers :
       /\ inv[s].handler = h
       /\ inv[s].status = 429
       /\ inv[s].req.body.bytes > MAX_BODY_BYTES
       /\ CountOf(rateLimitMap[h], inv[s].key) = 12


\* a call for key k at handler h has returned true in the window that is open
RejectedInWindow(h, k) ==
    hist[h][k].open /\ hist[h][k].calls > hist[h][k].admitted

(***************************************************************************)
(* C32.  Once isRateLimited has returned true for a key, every later call  *)
(* for the key returns true as long as no more than 60,000 ms have passed  *)
(* since the windowStart of its entry, and the first call after that       *)
(* returns false.  A call inside the window, admitted or rejected, leaves  *)
(* the windowStart as it is: rejected requests do not extend the window.   *)
(***************************************************************************)
C32_LimitedUntilWindowEnds ==
    [][\A h \in Handlers : \A k \in Keys :
          Called(h, k) =>
             \A e \in mapGet(rateLimitMap[h], k) :
                IF now - e.windowStart <= 60000
                THEN /\ \A n \in mapGet(rateLimitMap'[h], k) :
                          n.windowStart = e.windowStart
                     /\ mapGet(rateLimitMap'[h], k) # {}
                     /\ RejectedInWindow(h, k) => ToldLimited(k, TRUE)
                ELSE ToldLimited(k, FALSE)]_vars

\* A key rejected at instant 0 calls again 60,000 ms later: it is rejected
\* again and the window still starts at 0.
C32_Witness ==
    \E h \in Handlers : \E entry \in rateLimitMap[h] : \E s \in Slots :
       /\ entry.windowStart = 0
       /\ entry.count = 12
       /\ hist[h][entry.ip].calls = hist[h][entry.ip].admitted + 2
       /\ hist[h][entry.ip].last = 60000
       /\ inv[s].key = entry.ip /\ inv[s].limited
====
